---------------------------- MODULE Spec2Model ----------------------------
(***************************************************************************)
(* Verification model of eslint-plugin-css-order:                           *)
(*   - SourceCodeLocationResolver (replace-utils.js)            : SpecLoc  *)
(*   - CSSParser / SCSSParser / StylusParser .parse             : SpecParse*)
(*   - removeInvalidDescendantCombinator (css-selector-parser)  : SpecRIDC *)
(*   - CSSSelectorParser conversion of a selector-grammar tree  : SpecSel  *)
(*   - SCSSSelectorParser.parseInternal (replace / restore)     : SpecScss *)
(*   - CSSParser.convertDeclNode                                : SpecDecl *)
(*   - the copy method of the AST nodes (ast.js)                : SpecCopy *)
(*   - the selector getter of the selector nodes (ast.js)       : SpecRead *)
(*   - repeated parse calls on one CSSParser                    : SpecCalls*)
(*   - the css-order rule: reports at Program:exit and the fix  : SpecRule *)
(*   - loading css-order.config.json                            : SpecCfg  *)
(*   - the placeholders drawn by replaceSelector                : SpecRoll *)
(*   - definePatternsSearchGenerator over one text              : SpecSearch*)
(*   - adjustEndLocation under nested ancestors                 : SpecAdj  *)
(*   - restoreReplacedSelector over a converted selector tree   : SpecRestore*)
(*   - normalizePseudoParams on the children of a pseudo        : SpecNorm *)
(* Texts are sequences of one-character strings; indices are 0-based as in *)
(* the source, sequences are 1-based as in TLA+.                           *)
(***************************************************************************)
EXTENDS Integers, Sequences, FiniteSets, TLC

VARIABLES
  \* ---- SourceCodeLocationResolver instance and the last calls on it
  text,              \* this.text
  lineStartIndices,  \* this.lineStartIndices
  locCall,           \* "new" | "getLocFromIndex" | "getIndexFromLoc"
  locIndex,          \* argument of the last getLocFromIndex
  locLoc,            \* its result {line, column}
  locBack,           \* result of getIndexFromLoc(locLoc)
  \* ---- a CSSParser / SCSSParser / StylusParser instance and its last parse call
  lang,              \* this.lang: which parser class was constructed
  sourceCode,        \* this.sourceCode.text
  commentContainer,  \* this.commentContainer
  anyErrors,         \* this.anyErrors
  parseArgs,         \* arguments of the last parse call and what the engines did on them
  returned,          \* what the last parse call gave back to its caller
  \* ---- one call of removeInvalidDescendantCombinator(nodes)
  ridcNodes,         \* its argument
  ridcResults,       \* its result, NotCalled before the call
  \* ---- one call of CSSSelectorParser.parse for the selector of a style rule
  selIn,             \* host text, selector text, its grammar tree, the rule
  selOut,            \* the converted selectors, NotCalled before the call
  \* ---- an SCSSSelectorParser and one call each of its parseInternal and parse
  scssIn,            \* host text, selector text, the rule
  scssTree,          \* what parseInternal returned, NotCalled before the call
  scssOut,           \* the converted selectors, NotCalled before the call
  \* ---- one call of CSSParser.convertDeclNode
  declIn,            \* sourceCode.text, the start index and node.prop
  declProperty,      \* let property
  declStarLength,    \* let starLength
  declTextProp,      \* let textProp
  declPc,            \* "init", "loop" or "done": where the call stands
  \* ---- ast.js: one call of copy
  copyThis,          \* the node copy is called on
  copyOut,           \* the overrides of the call and what it returned
  \* ---- ast.js: assignments to a selector node and reads of its selector
  readNode,          \* the selector node whose fields are assigned and read
  readAssigns,       \* the number of assignments made to it
  readOut,           \* the last read of its selector
  \* ---- css-parser.js: several calls of parse on one instance
  callArrays,        \* the arrays the parser and the style sheets it returned refer to
  callThis,          \* the fields of one parser instance, its arrays by reference
  callSheets,        \* the style sheets returned by the calls of parse on it, in order
  \* ---- rules/eslint-plugin-css-order.js: the rule on one style element
  styleArr,          \* the lines of a style element's text
  ruleReports,       \* the reports of Program:exit for it, and the blocks it sorted
  ruleFixed,         \* the lines of the text the fix of a report puts in its place
  \* ---- rules/eslint-plugin-css-order.js: the configuration loaded with the module
  cfgFile,           \* css-order.config.json in the working directory
  cfgLoaded,         \* what loading the rule module gave
  \* ---- replace-utils: the placeholders drawn within one replaceSelector call
  rollSelector,      \* the selector replaceSelector is called on
  rollYields,        \* what the search generator yields for it
  rollK,             \* the number of yields the loop is done with
  rollPieces,        \* the array cssSelector
  rollInfos,         \* the entries pushed on replaces and comments, in order
  rollRandom,        \* the random string under test
  rollPc,            \* the position in the loop body
  rollDrawn,         \* the number of calls of randomStr() so far
  rollPatterns,      \* the Pattern objects of the search generator
  rollStart,         \* the generator's start
  rollRemap,         \* the RemapIndexContext
  rollOut,           \* the ReplaceSelectorContext returned, NotCalled before the return
  \* ---- one call of convertCombinatorNode or convertStringNode
  adjIn,             \* the source text, the nodes made so far and the arguments of the call
  adjOut,            \* the nodes after the call and the new node, NotCalled before the call
  \* ---- restoreReplacedSelector, step by step (SpecRestore)
  restIn,            \* the selector text given to parseInternal
  restCtx,           \* the replaceSelectorContext of the call
  restTree,          \* the grammar tree being restored
  restTodo,          \* the nodes still to visit, the next one first
  restPc,            \* the position inside restoreReplacedSelector
  restCssText,       \* cssText of the node being visited
  restReplaces,      \* replaceSelectorContext.replaces
  restComments,      \* replaceSelectorContext.comments
  restVisited,       \* the nodes visited, in the order of the visits
  restLog,           \* the node of each restore made
  \* ---- normalizePseudoParams on the converted children of a pseudo (SpecNorm)
  normIn,            \* the store with the pseudo and its converted children, and the list of the children
  normOut            \* the store after the call, NotCalled before the call

locVars == <<text, lineStartIndices, locCall, locIndex, locLoc, locBack>>
parseVars == <<lang, sourceCode, commentContainer, anyErrors, parseArgs, returned>>

ridcVars == <<ridcNodes, ridcResults>>

selVars == <<selIn, selOut>>

scssVars == <<scssIn, scssTree, scssOut>>

declVars == <<declIn, declProperty, declStarLength, declTextProp, declPc>>

copyVars == <<copyThis, copyOut>>

readVars == <<readNode, readAssigns, readOut>>

callVars == <<callArrays, callThis, callSheets>>

ruleVars == <<styleArr, ruleReports, ruleFixed>>

cfgVars == <<cfgFile, cfgLoaded>>

rollVars == <<rollSelector, rollYields, rollK, rollPieces, rollInfos, rollRandom, rollPc, rollDrawn,
              rollPatterns, rollStart, rollRemap, rollOut>>

adjVars == <<adjIn, adjOut>>

restVars == <<restIn, restCtx, restTree, restTodo, restPc, restCssText, restReplaces, restComments, restVisited, restLog>>

normVars == <<normIn, normOut>>

vars == <<locVars, parseVars, ridcVars, selVars, scssVars, declVars, copyVars, readVars, callVars, ruleVars, cfgVars, rollVars, adjVars, restVars, normVars>>

-----------------------------------------------------------------------------
(* The parts of the state a specification does not use stay at these values *)

NoLoc == [line |-> 0, column |-> 0]
Null == "null"
\* value of a call record before the call is made
NotCalled == [called |-> FALSE]

IdleLoc ==
  /\ text = << >>
  /\ lineStartIndices = <<0>>
  /\ locCall = "new"
  /\ locIndex = 0
  /\ locLoc = NoLoc
  /\ locBack = 0

IdleParse ==
  /\ lang = "css"
  /\ sourceCode = << >>
  /\ commentContainer = << >>
  /\ anyErrors = << >>
  /\ parseArgs = NotCalled
  /\ returned = NotCalled

IdleRidc ==
  /\ ridcNodes = << >>
  /\ ridcResults = NotCalled

IdleSel ==
  /\ selIn = NotCalled
  /\ selOut = NotCalled

IdleScss ==
  /\ scssIn = NotCalled
  /\ scssTree = NotCalled
  /\ scssOut = NotCalled

IdleDecl ==
  /\ declIn = NotCalled
  /\ declProperty = << >>
  /\ declStarLength = 0
  /\ declTextProp = << >>
  /\ declPc = "init"

IdleCopy ==
  /\ copyThis = Null
  /\ copyOut = NotCalled

IdleRead ==
  /\ readNode = Null
  /\ readAssigns = 0
  /\ readOut = NotCalled

IdleCalls ==
  /\ callArrays = << >>
  /\ callThis = Null
  /\ callSheets = << >>

IdleRule ==
  /\ styleArr = << >>
  /\ ruleReports = NotCalled
  /\ ruleFixed = NotCalled

IdleCfg ==
  /\ cfgFile = Null
  /\ cfgLoaded = NotCalled

IdleRoll ==
  /\ rollSelector = << >>
  /\ rollYields = << >>
  /\ rollK = 0
  /\ rollPieces = << >>
  /\ rollInfos = << >>
  /\ rollRandom = << >>
  /\ rollPc = Null
  /\ rollDrawn = 0
  /\ rollPatterns = << >>
  /\ rollStart = 0
  /\ rollRemap = Null
  /\ rollOut = NotCalled

IdleAdj ==
  /\ adjIn = Null
  /\ adjOut = NotCalled

IdleRest ==
  /\ restIn = << >>
  /\ restCtx = Null
  /\ restTree = Null
  /\ restTodo = << >>
  /\ restPc = Null
  /\ restCssText = << >>
  /\ restReplaces = << >>
  /\ restComments = << >>
  /\ restVisited = << >>
  /\ restLog = << >>

IdleNorm ==
  /\ normIn = Null
  /\ normOut = NotCalled

-----------------------------------------------------------------------------
(* Generic helpers                                                         *)

Min(a, b) == IF a <= b THEN a ELSE b
Max(a, b) == IF a >= b THEN a ELSE b

\* Op applied to the value of v, which is computed once
Bind(v, Op(_)) == CHOOSE r \in {Op(x) : x \in {v}} : TRUE

\* All sequences over S of length 0..n
SeqsUpTo(S, n) == UNION { [1..k -> S] : k \in 0..n }

\* s.slice(a, b) for 0 <= a, with b clamped to the length (0-based, end exclusive)
Slice(s, a, b) ==
  LET e == Min(b, Len(s))
  IN  IF a >= e THEN << >> ELSE [k \in 1..(e - a) |-> s[a + k]]

-----------------------------------------------------------------------------
(* SourceCodeLocationResolver                                              *)

\* bound: longest text buffer given to a resolver
MaxLen == 3

LF == "\n"
CR == "\r"
LS == "u2028"
PS == "u2029"
LineChars == {"a", LF, CR, LS, PS}

\* one match of /\r\n|[\n\r  ]/gu at 1-based position p: its length, 0 if none
lineEndingAt(code, p) ==
  IF p > Len(code) THEN 0
  ELSE IF code[p] = CR /\ p < Len(code) /\ code[p + 1] = LF THEN 2
  ELSE IF code[p] \in {LF, CR, LS, PS} THEN 1
  ELSE 0

\* the constructor's while ((match = lineEndingPattern.exec(code))) loop, scanning from p
RECURSIVE scanLineStarts(_, _)
scanLineStarts(code, p) ==
  LET found == {q \in p..Len(code) : lineEndingAt(code, q) > 0}
  IN  IF found = {} THEN << >>
      ELSE LET q == CHOOSE m \in found : \A o \in found : m <= o
               n == lineEndingAt(code, q)
           IN  <<(q - 1) + n>> \o scanLineStarts(code, q + n)

\* new SourceCodeLocationResolver(code).lineStartIndices
newLineStartIndices(code) == <<0>> \o scanLineStarts(code, 1)

\* lodash.sortedLastIndex(array, value): the index after the last element <= value
sortedLastIndex(array, value) ==
  Cardinality({k \in 1..Len(array) : array[k] <= value})

\* getLocFromIndex with a column counted from 1 (a base confusion)
getLocFromIndex_oneBased(code, starts, index) ==
  LET lineNumber == IF index = Len(code) THEN Len(starts)
                    ELSE sortedLastIndex(starts, index)
  IN  [line |-> lineNumber, column |-> index - starts[lineNumber] + 1]

getLocFromIndex(code, starts, index) ==
  IF index = Len(code)
  THEN [line |-> Len(starts), column |-> index - starts[Len(starts)]]
  ELSE LET lineNumber == sortedLastIndex(starts, index)
       IN  [line |-> lineNumber, column |-> index - starts[lineNumber]]

getIndexFromLoc(starts, loc) == starts[loc.line] + loc.column

-----------------------------------------------------------------------------
(* CSSParser.parse, and the parsers of the dialects (css-parser.js,         *)
(* scss-parser.js, stylus-parser.js).  The grammar engines are outside the  *)
(* repository: what an engine does on a text is an input of the call (it    *)
(* returns a tree or throws), and so is what each conversion step meets.    *)

\* bound: number of top-level nodes of a grammar tree
MaxNodes == 2

Langs == {"css", "scss", "stylus"}

\* Host documents the style text is embedded in (sourceCode.text)
Docs == { <<"a">>, <<"a", "a", LF, "a">>, <<LF, "a", "a">> }

\* Failures: line and column are 1-based as the engines report them, 0 when the
\* failure carries none; reason is "" when the failure has no reason field.
NoErr == [line |-> 0, column |-> 0, reason |-> "", message |-> ""]
UnknownWord11 ==
  [line |-> 1, column |-> 1, reason |-> "Unknown word",
   message |-> "<css input>:1:1: Unknown word"]
UnclosedBlock11 ==
  [line |-> 1, column |-> 1, reason |-> "Unclosed block",
   message |-> "<css input>:1:1: Unclosed block"]
UnknownWord21 ==
  [line |-> 2, column |-> 1, reason |-> "Unknown word",
   message |-> "<css input>:2:1: Unknown word"]
TypeErr ==
  [line |-> 0, column |-> 0, reason |-> "",
   message |-> "Cannot read properties of undefined"]
PlainUnknownWord ==
  [line |-> 0, column |-> 0, reason |-> "", message |-> "Unknown word"]

EngineErrs == {UnknownWord11, UnclosedBlock11, UnknownWord21}
NestedErrs == {UnknownWord11, UnclosedBlock11}
StepErrs   == {TypeErr, PlainUnknownWord}

\* Top-level nodes of a grammar tree, by what converting them meets:
\*   step "ok"             the node converts
\*   step "throws"         (rule) the selector parser throws e
\*   step "between"        (rule) raws.between is not blank and the primary engine throws e on it
\*   step "betweenComment" (rule, atrule) raws.between is not blank and holds one comment
\*   step "afterNameComment" (atrule) raws.afterName is not blank and holds one comment
\*   step "selectorComment" (rule) the selector text holds one comment
\*   step "body"           (rule) the body holds a declaration and a comment
\*   step "inline"         (comment) raws.inline is set, which postcss never does
\* nodes are the children of a container, in the order of the text
BodyNodes ==
  << [type |-> "decl", step |-> "ok", e |-> NoErr, nodes |-> << >>],
     [type |-> "comment", step |-> "ok", e |-> NoErr, nodes |-> << >>] >>
GNode(type, step, e) ==
  [type |-> type, step |-> step, e |-> e, nodes |-> IF step = "body" THEN BodyNodes ELSE << >>]
GNodes ==
  { GNode("decl", "ok", NoErr), GNode("comment", "ok", NoErr), GNode("comment", "inline", NoErr),
    GNode("rule", "ok", NoErr), GNode("rule", "betweenComment", NoErr),
    GNode("rule", "selectorComment", NoErr), GNode("rule", "body", NoErr),
    GNode("atrule", "ok", NoErr), GNode("atrule", "afterNameComment", NoErr),
    GNode("atrule", "betweenComment", NoErr) }
  \cup { GNode("rule", "throws", e) : e \in StepErrs }
  \cup { GNode("rule", "between", e) : e \in NestedErrs }

\* result of a step that may throw
Threw(e, errs) == [threw |-> TRUE, e |-> e, anyErrors |-> errs, root |-> Null]
Tree(root, errs) == [threw |-> FALSE, e |-> NoErr, anyErrors |-> errs, root |-> root]

\* CSSParser.parseInternal that forgets the failure it fell back from
CSSParser_parseInternal_dropsError(errs, primary, safe) ==
  IF primary = NoErr THEN Tree("postcss", errs)
  ELSE IF safe = NoErr THEN Tree("postcss-safe-parser", errs)
  ELSE Threw(safe, errs)

\* CSSParser.parseInternal: try postcss.parse, catch: addError(e), postcssSafeParser
CSSParser_parseInternal(errs, primary, safe) ==
  IF primary = NoErr THEN Tree("postcss", errs)
  ELSE LET added == Append(errs, primary)
       IN  IF safe = NoErr THEN Tree("postcss-safe-parser", added)
           ELSE Threw(safe, added)

\* SCSSParser.parseInternal: return postcssScss.parse(css)
SCSSParser_parseInternal(errs, primary, safe) ==
  IF primary = NoErr THEN Tree("postcss-scss", errs) ELSE Threw(primary, errs)

\* StylusParser.parseInternal: return postcssStyl.parse(css)
StylusParser_parseInternal(errs, primary, safe) ==
  IF primary = NoErr THEN Tree("postcss-styl", errs) ELSE Threw(primary, errs)

\* this.parseInternal, dispatched on the class of the parser
parseInternal(l, errs, primary, safe) ==
  CASE l = "css"    -> CSSParser_parseInternal(errs, primary, safe)
    [] l = "scss"   -> SCSSParser_parseInternal(errs, primary, safe)
    [] l = "stylus" -> StylusParser_parseInternal(errs, primary, safe)

getESLintLineAndColumnFromPostCSSPosition(offsetLocation, loc) ==
  IF loc.line = 1
  THEN [line |-> offsetLocation.line, column |-> offsetLocation.column + (loc.column - 1)]
  ELSE [line |-> offsetLocation.line + loc.line - 1, column |-> loc.column - 1]

\* error.reason || error.message
errorMessage(error) == IF error.reason # "" THEN error.reason ELSE error.message

errorLocOf(error, offsetLocation) ==
  IF error.line # 0 /\ error.column # 0
  THEN getESLintLineAndColumnFromPostCSSPosition(offsetLocation, error)
  ELSE offsetLocation

\* the key `[${errorLoc.line}:${errorLoc.column}]: ${message}`
errorKey(error, offsetLocation) ==
  LET errorLoc == errorLocOf(error, offsetLocation)
  IN  <<errorLoc.line, errorLoc.column, errorMessage(error)>>

VCSSParsingError(errorLoc, errorIndex, message) ==
  [type |-> "VCSSParsingError", loc |-> errorLoc,
   range |-> <<errorIndex, errorIndex>>, message |-> message]

\* the for loop of collectErrors from errors[k] on
RECURSIVE collectErrorsFrom(_, _, _, _, _, _)
collectErrorsFrom(errors, k, duplicate, errorNodes, offsetLocation, starts) ==
  IF k > Len(errors) THEN errorNodes
  ELSE LET error == errors[k]
           errorLoc == errorLocOf(error, offsetLocation)
           key == errorKey(error, offsetLocation)
       IN  IF key \in duplicate
           THEN collectErrorsFrom(errors, k + 1, duplicate, errorNodes, offsetLocation, starts)
           ELSE collectErrorsFrom(errors, k + 1, duplicate \cup {key},
                  Append(errorNodes,
                         VCSSParsingError(errorLoc, getIndexFromLoc(starts, errorLoc),
                                          errorMessage(error))),
                  offsetLocation, starts)

\* collectErrors without the duplicate set
collectErrors_keepsAll(errors, offsetLocation, starts) ==
  [k \in 1..Len(errors) |->
     LET errorLoc == errorLocOf(errors[k], offsetLocation)
     IN  VCSSParsingError(errorLoc, getIndexFromLoc(starts, errorLoc), errorMessage(errors[k]))]

collectErrors(errors, offsetLocation, starts) ==
  collectErrorsFrom(errors, 1, {}, << >>, offsetLocation, starts)

VCSSStyleSheet(node, loc, start, end, nodes, comments, errors, l) ==
  [type |-> "VCSSStyleSheet", node |-> node, loc |-> loc, range |-> <<start, end>>,
   nodes |-> nodes, comments |-> comments, errors |-> errors, lang |-> l]

\* state threaded through the conversion of a tree
ConvState(errs) ==
  [threw |-> FALSE, e |-> NoErr, anyErrors |-> errs, commentContainer |-> << >>,
   nodes |-> << >>, made |-> FALSE, astNode |-> [type |-> "null"]]

\* The id of a node of the tree is the path of child indices from the root (0 for
\* the selector of a rule); the style sheet built for a glue text has an id of its own.
NodeId(path) == [glue |-> "", path |-> path]
GlueRootId(raw, path) == [glue |-> raw, path |-> path]

VCSSComment(parent) == [type |-> "VCSSComment", parent |-> parent]
VCSSInlineComment(parent) == [type |-> "VCSSInlineComment", parent |-> parent]
AstChild(type, path, parent) ==
  [type |-> type, id |-> NodeId(path), parent |-> parent, nodes |-> << >>,
   selectors |-> IF type = "VCSSStyleRule"
                 THEN <<[type |-> "VCSSSelector", id |-> NodeId(Append(path, 0)),
                         parent |-> NodeId(path)]>>
                 ELSE << >>]

\* a convert method returned astNode
made(st, astNode) == [st EXCEPT !.made = TRUE, !.astNode = astNode]

\* convertCommentNode that returns the comment node as well
CSSParser_convertCommentNode_inTree(l, n, parent, st) ==
  made([st EXCEPT !.commentContainer = Append(@, VCSSComment(parent))], VCSSComment(parent))

\* convertCommentNode of CSSParser, and of SCSSParser and StylusParser: return null
CSSParser_convertCommentNode(l, n, parent, st) ==
  [st EXCEPT !.made = FALSE,
             !.commentContainer =
                Append(@, IF l # "css" /\ n.step = "inline"
                          THEN VCSSInlineComment(parent) ELSE VCSSComment(parent))]

RECURSIVE convertChild(_, _, _, _, _)
RECURSIVE convertChildren(_, _, _, _, _, _)

\* parseRuleRawsBetween, parseAtruleRawsAfterName, parseAtruleRawsBetween:
\* parseInternal on the glue text, then _postcssNodeToASTNode on its root with
\* no parent; the style sheet it returns is dropped
parseRaws(l, raw, n, path, st) ==
  LET r == parseInternal(l, st.anyErrors, n.e, NoErr)
  IN  IF r.threw
      THEN [st EXCEPT !.threw = TRUE, !.e = r.e, !.anyErrors = r.anyErrors]
      ELSE LET glue == IF n.step = raw \o "Comment"
                       THEN <<[type |-> "comment", step |-> "ok", e |-> NoErr, nodes |-> << >>]>>
                       ELSE << >>
               c == convertChildren(l, glue, 1, path, GlueRootId(raw, path),
                                    [st EXCEPT !.anyErrors = r.anyErrors, !.nodes = << >>])
           IN  [c EXCEPT !.nodes = st.nodes]

\* convertRuleNode: selectors, then parseRuleRawsBetween when raws.between is not blank
convertRuleNode(l, n, path, parent, st) ==
  IF n.step = "throws" THEN [st EXCEPT !.threw = TRUE, !.e = n.e]
  ELSE LET astNode == AstChild("VCSSStyleRule", path, parent)
           sel == IF n.step = "selectorComment"
                  THEN [st EXCEPT !.commentContainer =
                                     Append(@, VCSSComment(astNode.selectors[1].id))]
                  ELSE st
       IN  IF n.step \in {"between", "betweenComment"}
           THEN made(parseRaws(l, "between", n, path, sel), astNode)
           ELSE made(sel, astNode)

\* convertAtruleNode: parseAtruleRawsAfterName and parseAtruleRawsBetween when the
\* raws are not blank
convertAtruleNode(l, n, path, parent, st) ==
  LET astNode == AstChild("VCSSAtRule", path, parent)
  IN  IF n.step = "afterNameComment" THEN made(parseRaws(l, "afterName", n, path, st), astNode)
      ELSE IF n.step = "betweenComment" THEN made(parseRaws(l, "between", n, path, st), astNode)
      ELSE made(st, astNode)

\* this[typeToConvertMethodName(node.type)](node, loc, start, end, parent)
convertNode(l, n, path, parent, st) ==
  CASE n.type = "decl" -> made(st, AstChild("VCSSDeclarationProperty", path, parent))
    [] n.type = "comment" -> CSSParser_convertCommentNode(l, n, parent, st)
    [] n.type = "rule" -> convertRuleNode(l, n, path, parent, st)
    [] n.type = "atrule" -> convertAtruleNode(l, n, path, parent, st)

isVCSSContainerNode(node) ==
  node.type \in {"VCSSAtRule", "VCSSStyleRule", "VCSSStyleSheet", "VCSSUnknown"}

\* _postcssNodeToASTNode on a child of a container: the node joins st.nodes unless
\* its convert method returned null; a container node gets its converted children
convertChild(l, n, path, parent, st) ==
  LET c == convertNode(l, n, path, parent, st)
  IN  IF c.threw \/ ~c.made THEN c
      ELSE IF isVCSSContainerNode(c.astNode)
      THEN LET kids == convertChildren(l, n.nodes, 1, path, c.astNode.id,
                                       [c EXCEPT !.nodes = << >>])
           IN  [kids EXCEPT !.nodes = Append(c.nodes, [c.astNode EXCEPT !.nodes = kids.nodes])]
      ELSE [c EXCEPT !.nodes = Append(@, c.astNode)]

\* node.nodes.map(n => this._postcssNodeToASTNode(...)).filter(isDefined); a throw ends it
convertChildren(l, nodes, k, path, parent, st) ==
  IF st.threw \/ k > Len(nodes) THEN st
  ELSE convertChildren(l, nodes, k + 1, path, parent,
                       convertChild(l, nodes[k], Append(path, k), parent, st))

\* the try block of parse, up to the conversion of the tree
parseTry(l, env) ==
  LET pi == parseInternal(l, << >>, env.primary, env.safe)
  IN  IF pi.threw
      THEN [ConvState(pi.anyErrors) EXCEPT !.threw = TRUE, !.e = pi.e] @@ [root |-> Null]
      ELSE convertChildren(l, env.nodes, 1, << >>, NodeId(<< >>), ConvState(pi.anyErrors))
           @@ [root |-> pi.root]

\* the catch block of parse
parseCatch(l, doc, css, offsetLocation, t) ==
  LET starts == newLineStartIndices(doc)
      startIndex == getIndexFromLoc(starts, offsetLocation)
      endIndex == startIndex + Len(css)
      styleLoc == [start |-> offsetLocation, end |-> getLocFromIndex(doc, starts, endIndex)]
  IN  VCSSStyleSheet(Null, styleLoc, startIndex, endIndex, << >>, << >>,
                     collectErrors(Append(t.anyErrors, t.e), offsetLocation, starts), l)

\* the rest of the try block: the root node with its comments and errors
parseRoot(l, doc, css, offsetLocation, t) ==
  LET starts == newLineStartIndices(doc)
      start == getIndexFromLoc(starts, offsetLocation)
      endLoc == getLocFromIndex(doc, starts, start + Len(css))
      end == getIndexFromLoc(starts, endLoc)
  IN  VCSSStyleSheet(t.root, [start |-> offsetLocation, end |-> endLoc], start, end,
                     t.nodes, t.commentContainer,
                     collectErrors(t.anyErrors, offsetLocation, starts), l)

\* caught: the e bound by the catch clause of parse, NoErr when the try block completed
Outcome(raised, node, t) ==
  [raised |-> raised, node |-> node, caught |-> IF t.threw THEN t.e ELSE NoErr,
   anyErrors |-> t.anyErrors, commentContainer |-> t.commentContainer]

\* parse with no catch block: a failure of the try block reaches the caller
parse_noCatch(l, doc, css, offsetLocation, env) ==
  LET t == parseTry(l, env)
  IN  IF t.threw THEN Outcome(TRUE, Null, t)
      ELSE Outcome(FALSE, parseRoot(l, doc, css, offsetLocation, t), t)

\* parse whose catch block forgets the errors recorded before the failure
parse_catchOnlyLast(l, doc, css, offsetLocation, env) ==
  LET t == parseTry(l, env)
  IN  IF t.threw
      THEN Outcome(FALSE, parseCatch(l, doc, css, offsetLocation,
                                     [t EXCEPT !.anyErrors = << >>]), t)
      ELSE Outcome(FALSE, parseRoot(l, doc, css, offsetLocation, t), t)

\* CSSParser.parse(css, offsetLocation)
parse(l, doc, css, offsetLocation, env) ==
  LET t == parseTry(l, env)
  IN  IF t.threw
      THEN Outcome(FALSE, parseCatch(l, doc, css, offsetLocation, t), t)
      ELSE Outcome(FALSE, parseRoot(l, doc, css, offsetLocation, t), t)

\* number of lines of a text
lineCount(s) == Len(newLineStartIndices(s))

\* What the engines can do on css: nothing fails on an empty text, a failure lies
\* on a line of the text, the fallback engine is asked only after a failure, and
\* no tree is converted when none was produced.
Envs(l, css) ==
  { env \in [primary : EngineErrs \cup {NoErr}, safe : {NoErr, TypeErr},
             nodes : SeqsUpTo(GNodes, MaxNodes)] :
      /\ env.primary.line <= lineCount(css)
      /\ (Len(css) = 0 => env.primary = NoErr /\ env.nodes = << >>)
      /\ (env.primary = NoErr => env.safe = NoErr)
      /\ (env.primary # NoErr /\ (l # "css" \/ env.safe # NoErr) => env.nodes = << >>)
      /\ (l = "css" => \A k \in 1..Len(env.nodes) : env.nodes[k].step # "inline") }

InitParse ==
  /\ lang \in Langs
  /\ sourceCode \in Docs
  /\ commentContainer = << >>
  /\ anyErrors = << >>
  /\ parseArgs = NotCalled
  /\ returned = NotCalled
  /\ IdleLoc
  /\ IdleRidc
  /\ IdleSel
  /\ IdleScss
  /\ IdleDecl
  /\ IdleCopy
  /\ IdleRead
  /\ IdleCalls
  /\ IdleRule
  /\ IdleCfg
  /\ IdleRoll
  /\ IdleAdj
  /\ IdleRest
  /\ IdleNorm

\* The rule constructs a parser for each style block and calls parse on it once
\* (function parse of the rule: new Parser(sourceCode, lang).parse(css, offsetLocation)).
Parse ==
  /\ returned = NotCalled
  /\ \E o \in 0..Len(sourceCode) :
    \E n \in 0..(Len(sourceCode) - o) :
      LET css == Slice(sourceCode, o, o + n)
          offsetLocation == getLocFromIndex(sourceCode, newLineStartIndices(sourceCode), o)
      IN  \E env \in Envs(lang, css) :
            LET out == parse(lang, sourceCode, css, offsetLocation, env)
            IN  /\ parseArgs' = [css |-> css, offsetLocation |-> offsetLocation, env |-> env]
                /\ returned' = [raised |-> out.raised, node |-> out.node,
                                caught |-> out.caught]
                /\ anyErrors' = out.anyErrors
                /\ commentContainer' = out.commentContainer
                /\ UNCHANGED <<lang, sourceCode, locVars, ridcVars, selVars, scssVars, declVars, copyVars, readVars, callVars, ruleVars, cfgVars, rollVars, adjVars, restVars, normVars>>

NextParse == Parse

SpecParse == InitParse /\ [][NextParse]_vars

-----------------------------------------------------------------------------
(* selectors.js and removeInvalidDescendantCombinator (css-selector-parser.js) *)
(* An AST node is a record; id stands for the identity of the object.       *)

\* bound: length of the node list given to removeInvalidDescendantCombinator
MaxList == 3

WS == {" ", LF, "\t"}

\* String.prototype.trim on a sequence of characters
RECURSIVE trimStart(_)
trimStart(v) == IF Len(v) > 0 /\ v[1] \in WS THEN trimStart(Tail(v)) ELSE v
RECURSIVE trimEnd(_)
trimEnd(v) ==
  IF Len(v) > 0 /\ v[Len(v)] \in WS THEN trimEnd(SubSeq(v, 1, Len(v) - 1)) ELSE v
trim(v) == trimEnd(trimStart(v))

S_vdeep    == <<":", ":", "v", "-", "d", "e", "e", "p">>
S_deep     == <<":", "d", "e", "e", "p">>
S_vslotted == <<":", ":", "v", "-", "s", "l", "o", "t", "t", "e", "d">>
S_slotted  == <<":", "s", "l", "o", "t", "t", "e", "d">>
S_vglobal  == <<":", ":", "v", "-", "g", "l", "o", "b", "a", "l">>
S_global   == <<":", "g", "l", "o", "b", "a", "l">>
S_hover    == <<":", "h", "o", "v", "e", "r">>

\* the absent node (null / undefined)
NoNode == [type |-> "none"]

isPseudo(node) == node.type = "VCSSSelectorPseudo"
isVDeepPseudo(node) == isPseudo(node) /\ trim(node.value) \in {S_vdeep, S_deep}
isVSlottedPseudo(node) == isPseudo(node) /\ trim(node.value) \in {S_vslotted, S_slotted}
isVGlobalPseudo(node) == isPseudo(node) /\ trim(node.value) \in {S_vglobal, S_global}
\* isVueSpecialPseudo that knows the two forms of deep only
isVueSpecialPseudo_deepOnly(node) == isVDeepPseudo(node)
isVueSpecialPseudo(node) ==
  isVDeepPseudo(node) \/ isVSlottedPseudo(node) \/ isVGlobalPseudo(node)
isVDeepPseudoV2(node) == isVDeepPseudo(node) /\ Len(node.nodes) = 0
isSelectorCombinator(node) == node.type = "VCSSSelectorCombinator"
isDescendantCombinator(node) == isSelectorCombinator(node) /\ trim(node.value) = << >>

\* new VCSSSelectorCombinator(node.node, node.loc, node.start, node.end,
\*                            { parent: node.parent, value: " " })
synthesizedCombinator(node) ==
  [id |-> node.id \o <<0>>, type |-> "VCSSSelectorCombinator", value |-> <<" ">>,
   nodes |-> << >>, start |-> node.start, end |-> node.end, loc |-> node.loc,
   parent |-> node.parent]

\* the for loop without the look at nodes[index + 1]
RECURSIVE ridcFrom_noNext(_, _, _, _)
ridcFrom_noNext(nodes, index, results, prev) ==
  IF index > Len(nodes) THEN results
  ELSE
    LET node == nodes[index]
        keep == ridcFrom_noNext(nodes, index + 1, Append(results, node), node)
        skip == ridcFrom_noNext(nodes, index + 1, results, prev)
    IN  IF isDescendantCombinator(node)
        THEN IF Len(results) = 0 THEN skip
             ELSE IF isSelectorCombinator(prev) \/ isVDeepPseudoV2(prev) THEN skip
             ELSE keep
        ELSE IF isVueSpecialPseudo(node) /\ prev # NoNode /\ ~isSelectorCombinator(prev)
        THEN ridcFrom_noNext(nodes, index + 1,
                             results \o <<synthesizedCombinator(node), node>>, node)
        ELSE keep

\* the for loop of removeInvalidDescendantCombinator from nodes[index] on
\* (index is 1-based here), with the results so far and the last kept node
RECURSIVE ridcFrom(_, _, _, _)
ridcFrom(nodes, index, results, prev) ==
  IF index > Len(nodes) THEN results
  ELSE
    LET node == nodes[index]
        keep == ridcFrom(nodes, index + 1, Append(results, node), node)
        skip == ridcFrom(nodes, index + 1, results, prev)
    IN  IF isDescendantCombinator(node)
        THEN IF Len(results) = 0 THEN skip
             ELSE IF isSelectorCombinator(prev) \/ isVDeepPseudoV2(prev) THEN skip
             ELSE IF index + 1 <= Len(nodes) /\ isSelectorCombinator(nodes[index + 1])
             THEN skip
             ELSE keep
        ELSE IF isVueSpecialPseudo(node) /\ prev # NoNode /\ ~isSelectorCombinator(prev)
        THEN ridcFrom(nodes, index + 1,
                      results \o <<synthesizedCombinator(node), node>>, node)
        ELSE keep

removeInvalidDescendantCombinator(nodes) == ridcFrom(nodes, 1, << >>, NoNode)

\* Nodes a converted selector can hold, by kind; the node at place k of a list
\* spans [2k, 2k + 2)
PartKinds == {"descendant", "child", "class", "vdeep", "deepArgs", "slotted", "global", "hover"}

argSelector(id) ==
  [id |-> id \o <<1>>, type |-> "VCSSSelector", value |-> << >>, nodes |-> << >>,
   start |-> 0, end |-> 0, loc |-> NoLoc, parent |-> id]

partNode(kind, k) ==
  LET id == <<k>>
      type == CASE kind \in {"descendant", "child"} -> "VCSSSelectorCombinator"
                [] kind = "class" -> "VCSSClassSelector"
                [] OTHER -> "VCSSSelectorPseudo"
      value == CASE kind = "descendant" -> <<" ">>
                 [] kind = "child" -> <<">">>
                 [] kind = "class" -> <<"a">>
                 [] kind = "vdeep" -> S_vdeep
                 [] kind = "deepArgs" -> S_deep
                 [] kind = "slotted" -> S_vslotted
                 [] kind = "global" -> S_global
                 [] kind = "hover" -> S_hover
      args == IF kind \in {"deepArgs", "slotted", "global"} THEN <<argSelector(id)>>
              ELSE << >>
  IN  [id |-> id, type |-> type, value |-> value, nodes |-> args,
       start |-> 2 * k, end |-> 2 * k + 2, loc |-> NoLoc, parent |-> << >>]

InitRidc ==
  /\ \E kinds \in SeqsUpTo(PartKinds, MaxList) :
       ridcNodes = [k \in 1..Len(kinds) |-> partNode(kinds[k], k)]
  /\ ridcResults = NotCalled
  /\ IdleLoc
  /\ IdleParse
  /\ IdleSel
  /\ IdleScss
  /\ IdleDecl
  /\ IdleCopy
  /\ IdleRead
  /\ IdleCalls
  /\ IdleRule
  /\ IdleCfg
  /\ IdleRoll
  /\ IdleAdj
  /\ IdleRest
  /\ IdleNorm

RemoveInvalidDescendantCombinator ==
  /\ ridcResults = NotCalled
  /\ ridcResults' = [called |-> TRUE, results |-> removeInvalidDescendantCombinator(ridcNodes)]
  /\ UNCHANGED <<ridcNodes, locVars, parseVars, selVars, scssVars, declVars, copyVars, readVars, callVars, ruleVars, cfgVars, rollVars, adjVars, restVars, normVars>>

NextRidc == RemoveInvalidDescendantCombinator

SpecRIDC == InitRidc /\ [][NextRidc]_vars

-----------------------------------------------------------------------------
(* The selector grammar engine (postcss-selector-parser) is outside the     *)
(* repository.  The trees it hands to CSSSelectorParser are built here from *)
(* a description of the selector text: a list of selectors, each a list of  *)
(* parts with the white space around them.  Lines and columns are 1-based   *)
(* and an end position is the position of the node's last character.        *)

\* bound: number of parts of the first selector of a rule
MaxParts == 3

LeafKinds == {"cls", "desc", "child", "deep", "vdeep", "cmt", "descCmt"}
PseudoKinds == {"isPad", "is2", "deepArgs", "isVdeep", "isCmt"}
\* the kinds the first selector of a rule is drawn from
FirstKinds == {"cls", "desc", "child", "deep", "vdeep", "cmt", "is2", "deepArgs", "isVdeep"}
SelPartKinds == LeafKinds \cup PseudoKinds

SelSpec(lead, parts, trail) == [lead |-> lead, parts |-> parts, trail |-> trail]

leafText(kind) ==
  CASE kind = "cls" -> <<".", "a">>
    [] kind = "desc" -> <<" ">>
    [] kind = "child" -> <<">">>
    [] kind = "deep" -> <<">", ">", ">">>
    [] kind = "vdeep" -> S_vdeep
    [] kind = "cmt" -> <<"/", "*", "c", "*", "/">>
    \* white space holding a comment, between two compound selectors
    [] kind = "descCmt" -> <<" ", "/", "*", "c", "*", "/", LF>>

pseudoName(kind) == IF kind = "deepArgs" THEN S_deep ELSE <<":", "i", "s">>

\* the arguments of a pseudo: `:is( .a )`, `:is(.a, .a)`, `:deep(.a .a)`,
\* `:is(::v-deep .a)`, `:is(/*c*/.a)`
pseudoArgs(kind) ==
  CASE kind = "isPad" -> <<SelSpec(<<" ">>, <<"cls">>, <<" ">>)>>
    [] kind = "is2" -> <<SelSpec(<< >>, <<"cls">>, << >>), SelSpec(<<" ">>, <<"cls">>, << >>)>>
    [] kind = "deepArgs" -> <<SelSpec(<< >>, <<"cls", "desc", "cls">>, << >>)>>
    [] kind = "isVdeep" -> <<SelSpec(<< >>, <<"vdeep", "desc", "cls">>, << >>)>>
    [] kind = "isCmt" -> <<SelSpec(<< >>, <<"cmt", "cls">>, << >>)>>

RECURSIVE partsText(_)
RECURSIVE selListText(_)
partText(kind) ==
  IF kind \in LeafKinds THEN leafText(kind)
  ELSE pseudoName(kind) \o <<"(">> \o selListText(pseudoArgs(kind)) \o <<")">>
partsText(parts) ==
  IF parts = << >> THEN << >> ELSE partText(Head(parts)) \o partsText(Tail(parts))
selText(sel) == sel.lead \o partsText(sel.parts) \o sel.trail
selListText(sels) ==
  IF sels = << >> THEN << >>
  ELSE selText(Head(sels)) \o (IF Len(sels) > 1 THEN <<",">> ELSE << >>)
         \o selListText(Tail(sels))

\* the position of the character at offset o (0-based) of the text t
gPos(t, o) ==
  LET lfs == {i \in 1..o : t[i] = LF}
      lineStart == IF lfs = {} THEN 0 ELSE CHOOSE i \in lfs : \A j \in lfs : j <= i
  IN  [line |-> 1 + Cardinality(lfs), column |-> o - lineStart + 1]

gTypeOf(kind) ==
  CASE kind = "cls" -> "class"
    [] kind \in {"desc", "child", "deep", "descCmt"} -> "combinator"
    [] kind = "cmt" -> "comment"
    [] OTHER -> "pseudo"

gValueOf(kind) ==
  CASE kind = "cls" -> <<"a">>
    [] kind \in {"desc", "descCmt"} -> <<" ">>
    [] kind \in PseudoKinds -> pseudoName(kind)
    [] OTHER -> leafText(kind)

\* the nodes of the parts from offset o on, and of the selectors of a list whose
\* text starts at offset o; open: the offset of the `(` before the list, -1 for
\* the selectors of the rule; close: the offset of the `)` after it
RECURSIVE gParts(_, _, _)
RECURSIVE gSelectors(_, _, _, _, _, _)
gPart(kind, t, o) ==
  LET len == Len(partText(kind))
      open == o + Len(pseudoName(kind))
  IN  [type |-> gTypeOf(kind), value |-> gValueOf(kind),
       source |-> [start |-> gPos(t, o),
                   \* the token of `>>>` ends where it starts
                   end |-> IF kind = "deep" THEN gPos(t, o) ELSE gPos(t, o + len - 1)],
       \* a descendant combinator keeps the comment of its white space, and the
       \* white space after it, in raws.spaces.after
       raws |-> [spaces |-> [before |-> << >>,
                             after |-> IF kind = "descCmt" THEN Tail(leafText(kind))
                                       ELSE << >>]],
       nodes |-> IF kind \in PseudoKinds
                 THEN gSelectors(pseudoArgs(kind), 1, t, open + 1, open, o + len - 1)
                 ELSE << >>]
gParts(parts, t, o) ==
  IF parts = << >> THEN << >>
  ELSE <<gPart(Head(parts), t, o)>> \o gParts(Tail(parts), t, o + Len(partText(Head(parts))))
gSelectors(sels, k, t, o, open, close) ==
  IF k > Len(sels) THEN << >>
  ELSE
    LET sel == sels[k]
        nodes == gParts(sel.parts, t, o + Len(sel.lead))
        last == nodes[Len(nodes)]
        next == o + Len(selText(sel)) + 1
    IN  <<[type |-> "selector", value |-> << >>,
           source |-> [start |-> IF k = 1 /\ open >= 0 THEN gPos(t, open) ELSE gPos(t, o),
                       end |-> IF k = Len(sels) /\ open >= 0 THEN gPos(t, close)
                               ELSE last.source.end],
           raws |-> [spaces |-> [before |-> << >>, after |-> << >>]],
           nodes |-> nodes]>>
        \o gSelectors(sels, k + 1, t, next, open, close)

\* the comment nodes selectorParser().astSync(text) finds in white space that
\* holds comments, from offset o on
RECURSIVE gComments(_, _)
gComments(t, o) ==
  IF o + 1 >= Len(t) THEN << >>
  ELSE IF t[o + 1] = "/" /\ t[o + 2] = "*"
  THEN LET closes == {c \in (o + 3)..(Len(t) - 1) : t[c] = "*" /\ t[c + 1] = "/"}
           \* offset of the closing `/`, the last character when unclosed
           last == IF closes = {} THEN Len(t) - 1
                   ELSE CHOOSE c \in closes : \A d \in closes : c <= d
       IN  <<[type |-> "comment", value |-> Slice(t, o, last + 1),
              source |-> [start |-> gPos(t, o), end |-> gPos(t, last)],
              raws |-> [spaces |-> [before |-> << >>, after |-> << >>]],
              nodes |-> << >>]>> \o gComments(t, last + 1)
  ELSE gComments(t, o + 1)

CSSSelectorParser_parseCommentsInternal(t) == gComments(t, 0)

\* selectorParser().astSync(selector)
CSSSelectorParser_parseInternal(sels) ==
  [type |-> "root", value |-> << >>,
   source |-> [start |-> [line |-> 1, column |-> 1],
               end |-> gPos(selListText(sels), Len(selListText(sels)) - 1)],
   raws |-> [spaces |-> [before |-> << >>, after |-> << >>]],
   nodes |-> gSelectors(sels, 1, selListText(sels), 0, -1, -1)]

-----------------------------------------------------------------------------
(* replace-utils.js: the substitution of interpolations and inline comments *)
(* by placeholders, the map between indices of the substituted and of the   *)
(* original text, and the restore of the grammar tree.  A text is a         *)
(* sequence of characters, an index counts from 0.                          *)

\* randomStr: the length of a placeholder's random string
N == 16

\* the k-th random string drawn: the draws differ from each other, and the
\* texts of the model hold no "r"
RandomTails == <<"1", "2", "3", "4", "5", "6", "7", "8", "9">>
randomStr(k) == [i \in 1..N |-> IF i < N THEN "r" ELSE RandomTails[k]]

\* str.includes(sub) and str.indexOf(sub)
startsAt(str, sub, i) == i + Len(sub) <= Len(str) /\ Slice(str, i, i + Len(sub)) = sub
includes(str, sub) == \E i \in 0..Len(str) : startsAt(str, sub, i)
indexOf(str, sub) == CHOOSE i \in 0..Len(str) :
                       startsAt(str, sub, i) /\ \A j \in 0..(i - 1) : ~startsAt(str, sub, j)

\* the new substring of String.prototype.replace for a replacement string:
\* "$$" is a dollar sign, "$&" the matched text and "$" with an apostrophe the
\* text after the match ("$" with a grave accent, the text before the match,
\* is left out: the texts of the model hold no grave accent)
Apostrophe == "'"
RECURSIVE getSubstitution(_, _, _)
getSubstitution(replacement, matched, after) ==
  IF replacement = << >> THEN << >>
  ELSE IF Len(replacement) >= 2 /\ replacement[1] = "$"
          /\ replacement[2] \in {"$", "&", Apostrophe}
  THEN (CASE replacement[2] = "$" -> <<"$">>
          [] replacement[2] = "&" -> matched
          [] replacement[2] = Apostrophe -> after)
       \o getSubstitution(Slice(replacement, 2, Len(replacement)), matched, after)
  ELSE <<replacement[1]>> \o getSubstitution(Tail(replacement), matched, after)

\* text.replace(pattern, replacement) for a string pattern: the first occurrence
stringReplace(str, pattern, replacement) ==
  IF ~includes(str, pattern) THEN str
  ELSE LET i == indexOf(str, pattern)
           before == Slice(str, 0, i)
           after == Slice(str, i + Len(pattern), Len(str))
       IN  before \o getSubstitution(replacement, pattern, after) \o after

\* ---- RemapIndexContext
NewRemapIndexContext ==
  [mappers |-> << >>, newIndex |-> 0, orgIndex |-> 0, batchLengthOrg |-> 0, batchLengthNew |-> 0]

addMap(ctx, orgRange, newRange) ==
  IF orgRange = newRange THEN ctx
  ELSE [ctx EXCEPT !.mappers = <<[org |-> orgRange, new |-> newRange]>> \o @]

flush(ctx) ==
  IF ctx.batchLengthNew # 0 \/ ctx.batchLengthOrg # 0
  THEN LET newEnd == ctx.newIndex + ctx.batchLengthNew
           orgEnd == ctx.orgIndex + ctx.batchLengthOrg
       IN  [addMap(ctx, <<ctx.orgIndex, orgEnd>>, <<ctx.newIndex, newEnd>>)
              EXCEPT !.newIndex = newEnd, !.orgIndex = orgEnd,
                     !.batchLengthOrg = 0, !.batchLengthNew = 0]
  ELSE ctx

applyEq(ctx, length) ==
  IF length <= 0 THEN ctx
  ELSE Bind(flush(ctx),
         LAMBDA f :
           [addMap(f, <<f.orgIndex, f.orgIndex + length>>, <<f.newIndex, f.newIndex + length>>)
              EXCEPT !.newIndex = f.newIndex + length, !.orgIndex = f.orgIndex + length])

applyIns(ctx, length) == [ctx EXCEPT !.batchLengthNew = @ + length]

applyDel(ctx, length) == [ctx EXCEPT !.batchLengthOrg = @ + length]

hasMapping(ctx) == Len(ctx.mappers) > 0

\* the for loop without the clamp to the last index of the original range
RECURSIVE remapFrom_noClamp(_, _, _)
remapFrom_noClamp(mappers, k, index) ==
  IF k > Len(mappers) THEN index
  ELSE LET mapper == mappers[k]
       IN  IF mapper.new[1] <= index /\ index < mapper.new[2]
           THEN mapper.org[1] + (index - mapper.new[1])
           ELSE IF index = mapper.new[2] THEN mapper.org[2]
           ELSE remapFrom_noClamp(mappers, k + 1, index)

\* the for loop of remapIndex from the k-th mapper on
RECURSIVE remapFrom(_, _, _)
remapFrom(mappers, k, index) ==
  IF k > Len(mappers) THEN index
  ELSE LET mapper == mappers[k]
       IN  IF mapper.new[1] <= index /\ index < mapper.new[2]
           THEN Min(mapper.org[1] + (index - mapper.new[1]), mapper.org[2] - 1)
           ELSE IF index = mapper.new[2] THEN mapper.org[2]
           ELSE remapFrom(mappers, k + 1, index)

remapIndex(ctx, index) == remapFrom(ctx.mappers, 1, index)

\* ---- the patterns of replaceSelector, in the order they are declared
PatternNames == <<"block", "dstr", "sstr", "0comment", "0text">>

LineTerminators == {LF, CR, LS, PS}

\* the offsets from `from` on where sub starts
occurrences(str, sub, from) == {j \in from..Len(str) : startsAt(str, sub, j)}

SetMin(S) == CHOOSE i \in S : \A j \in S : i <= j

\* the length of the match of the pattern that starts at index i, 0 for none
matchLength(name, str, i) ==
  CASE name = "block" ->
         \* /\/\*[\s\S]+?\*\//gu
         IF startsAt(str, <<"/", "*">>, i) /\ occurrences(str, <<"*", "/">>, i + 3) # {}
         THEN SetMin(occurrences(str, <<"*", "/">>, i + 3)) + 2 - i ELSE 0
    [] name \in {"dstr", "sstr"} ->
         \* /"(?:[^"\\]|\\.)*"/gu and /'(?:[^'\\]|\\.)*'/gu; the texts hold no `\`
         LET q == IF name = "dstr" THEN <<"\"">> ELSE <<Apostrophe>>
         IN  IF startsAt(str, q, i) /\ occurrences(str, q, i + 1) # {}
             THEN SetMin(occurrences(str, q, i + 1)) + 1 - i ELSE 0
    [] name = "0comment" ->
         \* /\/\/[^\n\r  ]*/gu
         IF startsAt(str, <<"/", "/">>, i)
         THEN LET ends == {j \in (i + 2)..Len(str) :
                             j = Len(str) \/ str[j + 1] \in LineTerminators}
              IN  SetMin(ends) - i
         ELSE 0
    [] name = "0text" ->
         \* /#\{[\s\S]+?\}/gu
         IF startsAt(str, <<"#", "{">>, i) /\ occurrences(str, <<"}">>, i + 3) # {}
         THEN SetMin(occurrences(str, <<"}">>, i + 3)) + 1 - i ELSE 0

NoMatch == [index |-> -1, length |-> 0]

\* pattern.exec(str) with pattern.lastIndex = index
regexpExec(name, str, index) ==
  LET found == {i \in index..(Len(str) - 1) : matchLength(name, str, i) > 0}
  IN  IF found = {} THEN NoMatch
      ELSE [index |-> SetMin(found), length |-> matchLength(name, str, SetMin(found))]

\* new Pattern(name, pattern)
NewPattern(name) == [name |-> name, finished |-> FALSE, lastResult |-> NoMatch]

\* Pattern.exec that gives back its last result whatever the index asked for
Pattern_exec_stale(pattern, str, index) ==
  IF pattern.finished THEN [res |-> NoMatch, pattern |-> pattern]
  ELSE IF pattern.lastResult # NoMatch
  THEN [res |-> pattern.lastResult, pattern |-> pattern]
  ELSE Bind(regexpExec(pattern.name, str, index),
         LAMBDA r : [res |-> r,
                     pattern |-> [pattern EXCEPT !.lastResult = r,
                                                 !.finished = (r = NoMatch)]])

\* Pattern.exec(str, index): the result, and the pattern afterwards
Pattern_exec(pattern, str, index) ==
  IF pattern.finished THEN [res |-> NoMatch, pattern |-> pattern]
  ELSE IF pattern.lastResult # NoMatch /\ pattern.lastResult.index >= index
  THEN [res |-> pattern.lastResult, pattern |-> pattern]
  ELSE Bind(regexpExec(pattern.name, str, index),
         LAMBDA r : [res |-> r,
                     pattern |-> [pattern EXCEPT !.lastResult = r,
                                                 !.finished = (r = NoMatch)]])

\* the for loop of definePatternsSearchGenerator from the k-th pattern on
RECURSIVE execPatterns(_, _, _, _, _, _)
execPatterns(patterns, k, str, start, result, name) ==
  IF k > Len(patterns) THEN [patterns |-> patterns, result |-> result, name |-> name]
  ELSE Bind(Pattern_exec(patterns[k], str, start),
         LAMBDA e :
           IF e.res # NoMatch /\ (result = NoMatch \/ e.res.index < result.index)
           THEN execPatterns([patterns EXCEPT ![k] = e.pattern], k + 1, str, start,
                             e.res, patterns[k].name)
           ELSE execPatterns([patterns EXCEPT ![k] = e.pattern], k + 1, str, start,
                             result, name))

\* the while loop of definePatternsSearchGenerator: what it yields from start on
RECURSIVE searchFrom(_, _, _)
searchFrom(patterns, str, start) ==
  Bind(execPatterns(patterns, 1, str, start, NoMatch, ""),
    LAMBDA r :
      IF r.result = NoMatch THEN << >>
      ELSE <<[name |-> r.name, result |-> r.result]>>
             \o searchFrom(r.patterns, str, r.result.index + r.result.length))

definePatternsSearchGenerator(str) ==
  searchFrom([k \in 1..Len(PatternNames) |-> NewPattern(PatternNames[k])], str, 0)

\* the replace functions SCSSSelectorParser.parseInternal passes
genFunction(name, random) ==
  IF name = "0text" THEN <<"_">> \o random \o <<"_">>
  ELSE <<"/", "*">> \o random \o <<"*", "/">>

\* the body of the for loop of replaceSelector for one yield; rs holds the
\* locals of replaceSelector, drawn counts the random strings drawn
replaceStep(selector, y, rs) ==
  LET res == y.result
      plain == Slice(selector, rs.start, res.index)
      matched == Slice(selector, res.index, res.index + res.length)
      random == randomStr(rs.drawn + 1)
      replace == genFunction(y.name, random)
      info == [start |-> res.index, original |-> matched, random |-> random,
               replace |-> replace]
  IN  IF y.name \in {"block", "dstr", "sstr"}
      THEN [rs EXCEPT !.cssSelector = @ \o plain \o matched,
                      !.remapContext = applyEq(applyEq(@, Len(plain)), Len(matched)),
                      !.start = res.index + Len(matched)]
      ELSE [rs EXCEPT !.cssSelector = @ \o plain \o replace,
                      !.replaces = IF y.name = "0text" THEN Append(@, info) ELSE @,
                      !.comments = IF y.name = "0comment" THEN Append(@, info) ELSE @,
                      !.remapContext =
                         applyDel(applyIns(applyEq(@, Len(plain)), Len(replace)), Len(matched)),
                      !.drawn = @ + 1,
                      !.start = res.index + Len(matched)]

RECURSIVE replaceLoop(_, _, _, _)
replaceLoop(selector, yields, k, rs) ==
  IF k > Len(yields) THEN rs
  ELSE Bind(replaceStep(selector, yields[k], rs),
         LAMBDA rs2 : replaceLoop(selector, yields, k + 1, rs2))

\* replaceSelector(selector, regexps, commentRegexps): the ReplaceSelectorContext
replaceSelector(selector) ==
  Bind(replaceLoop(selector, definePatternsSearchGenerator(selector), 1,
                   [cssSelector |-> << >>, remapContext |-> NewRemapIndexContext,
                    replaces |-> << >>, comments |-> << >>, start |-> 0, drawn |-> 0]),
    LAMBDA rs :
      LET plain == Slice(selector, rs.start, Len(selector))
      IN  [cssSelector |-> rs.cssSelector \o plain,
           originalSelector |-> selector,
           remapContext |-> flush(applyEq(rs.remapContext, Len(plain))),
           replaces |-> rs.replaces,
           comments |-> rs.comments])

hasReplace(ctx) ==
  hasMapping(ctx.remapContext) \/ Len(ctx.replaces) > 0 \/ Len(ctx.comments) > 0

\* ---- selectorParser().astSync(text) for the texts of SCSS selectors after the
\* substitution: one selector of words (`.name` or `name`), white space,
\* block comments and `>`.  A token is a type and the offsets [start, end) of
\* its text.

RECURSIVE tokenize(_, _)
tokenize(t, o) ==
  IF o >= Len(t) THEN << >>
  ELSE
    LET type == CASE t[o + 1] \in WS -> "space"
                  [] startsAt(t, <<"/", "*">>, o) -> "comment"
                  [] t[o + 1] = ">" -> "combinator"
                  [] OTHER -> "word"
        closes == occurrences(t, <<"*", "/">>, o + 2)
        stops == {j \in (o + 1)..Len(t) :
                    j = Len(t) \/ (IF type = "space" THEN t[j + 1] \notin WS
                                   ELSE t[j + 1] \in WS \cup {">", "/"})}
        end == CASE type = "comment" -> IF closes = {} THEN Len(t) ELSE SetMin(closes) + 2
                 [] type = "combinator" -> o + 1
                 [] OTHER -> SetMin(stops)
    IN  <<[type |-> type, start |-> o, end |-> end]>> \o tokenize(t, end)

WhitespaceEquiv == {"space", "comment"}

gNode(type, value, t, start, end, before, after) ==
  [type |-> type, value |-> value,
   source |-> [start |-> gPos(t, start), end |-> gPos(t, end - 1)],
   raws |-> [spaces |-> [before |-> before, after |-> after]],
   nodes |-> << >>]

\* locateNextMeaningfulToken(p): 0 for none
locateNextMeaningfulToken(toks, p) ==
  LET sig == {q \in p..Len(toks) : toks[q].type \notin WhitespaceEquiv}
  IN  IF sig = {} THEN 0 ELSE SetMin(sig)

\* the white space of the tokens p..(q - 1) without their comments
RECURSIVE spaceOf(_, _, _, _)
spaceOf(t, toks, p, q) ==
  IF p >= q THEN << >>
  ELSE (IF toks[p].type = "space" THEN Slice(t, toks[p].start, toks[p].end) ELSE << >>)
       \o spaceOf(t, toks, p + 1, q)

hasComment(toks, p, q) == \E k \in p..(q - 1) : toks[k].type = "comment"

endsWithSpace(s) == Len(s) > 0 /\ s[Len(s)] = " "
startsWithSpace(s) == Len(s) > 0 /\ s[1] = " "

\* the descendant combinator of the white space tokens p..(q - 1)
descendantCombinator(t, toks, p, q) ==
  LET space == spaceOf(t, toks, p, q)
      rawSpace == Slice(t, toks[p].start, toks[q - 1].end)
  IN  gNode("combinator", <<" ">>, t, toks[p].start, toks[q - 1].end,
            IF endsWithSpace(space) /\ endsWithSpace(rawSpace)
            THEN Slice(rawSpace, 0, Len(rawSpace) - 1) ELSE << >>,
            IF ~(endsWithSpace(space) /\ endsWithSpace(rawSpace))
               /\ startsWithSpace(space) /\ startsWithSpace(rawSpace)
            THEN Tail(rawSpace) ELSE << >>)

\* the loop of the parser from the p-th token on; nodes are the children of
\* the selector so far
RECURSIVE parseLoop(_, _, _, _)
parseLoop(t, toks, p, nodes) ==
  IF p > Len(toks) THEN nodes
  ELSE
    LET tok == toks[p]
        content == Slice(t, tok.start, tok.end)
        next == locateNextMeaningfulToken(toks, p)
        last == Len(nodes)
    IN  CASE tok.type = "word" ->
               parseLoop(t, toks, p + 1,
                 Append(nodes,
                   IF content[1] = "."
                   THEN gNode("class", Tail(content), t, tok.start, tok.end, << >>, << >>)
                   ELSE gNode("tag", content, t, tok.start, tok.end, << >>, << >>)))
          [] tok.type = "comment" ->
               parseLoop(t, toks, p + 1,
                 Append(nodes, gNode("comment", content, t, tok.start, tok.end, << >>, << >>)))
          [] tok.type = "space"
             /\ (p = 1 \/ \A k \in 1..Len(nodes) : nodes[k].type = "comment") ->
               \* the white space before the selector
               parseLoop(t, toks, p + 1, nodes)
          [] tok.type = "space" /\ p = Len(toks) ->
               \* the white space after the selector
               parseLoop(t, toks, p + 1, nodes)
          [] next = 0 ->
               \* white space and comments up to the end: the raw text goes to
               \* the last node
               IF hasComment(toks, p, Len(toks) + 1)
               THEN [nodes EXCEPT ![last].raws.spaces.after =
                       @ \o Slice(t, tok.start, Len(t))]
               ELSE nodes
          [] toks[next].type = "combinator" ->
               LET comb == toks[next]
                   before == IF next > p /\ hasComment(toks, p, next)
                             THEN Slice(t, tok.start, comb.start) ELSE << >>
                   skip == IF next < Len(toks) /\ toks[next + 1].type = "space" THEN 2 ELSE 1
               IN  parseLoop(t, toks, next + skip,
                     Append(nodes, gNode("combinator", Slice(t, comb.start, comb.end), t,
                                         comb.start, comb.end, before, << >>)))
          [] OTHER ->
               parseLoop(t, toks, next, Append(nodes, descendantCombinator(t, toks, p, next)))

\* selectorParser().astSync(text): the root, its selector and the children
astSync(t) ==
  LET nodes == parseLoop(t, tokenize(t, 0), 1, << >>)
      start == [line |-> 1, column |-> 1]
  IN  [type |-> "root", value |-> << >>,
       source |-> [start |-> start, end |-> gPos(t, Len(t) - 1)],
       raws |-> [spaces |-> [before |-> << >>, after |-> << >>]],
       nodes |-> <<[type |-> "selector", value |-> << >>,
                    source |-> [start |-> start,
                                end |-> IF nodes = << >> THEN start
                                        ELSE nodes[Len(nodes)].source.end],
                    raws |-> [spaces |-> [before |-> << >>, after |-> << >>]],
                    nodes |-> nodes]>>]

\* ---- the restore of the grammar tree

\* lodash.get(node, prop, "") and lodash.set(node, prop, text) for the
\* properties value, raws.spaces.after and raws.spaces.before
getProp(node, prop) ==
  CASE prop = "value" -> node.value
    [] prop = "raws.spaces.after" -> node.raws.spaces.after
    [] prop = "raws.spaces.before" -> node.raws.spaces.before

setProp(node, prop, newText) ==
  CASE prop = "value" -> [node EXCEPT !.value = newText]
    [] prop = "raws.spaces.after" -> [node EXCEPT !.raws.spaces.after = newText]
    [] prop = "raws.spaces.before" -> [node EXCEPT !.raws.spaces.before = newText]

\* restoreReplaceNodeProp: whether it restored, and the node afterwards
restoreReplaceNodeProp(node, prop, replaceInfo) ==
  LET propText == getProp(node, prop)
  IN  IF includes(propText, replaceInfo.replace)
      THEN [found |-> TRUE,
            node |-> setProp(node, prop,
                             stringReplace(propText, replaceInfo.replace, replaceInfo.original))]
      ELSE [found |-> FALSE, node |-> node]

\* the for loop over targetProperties from the j-th property on
RECURSIVE restoreProps(_, _, _, _)
restoreProps(node, props, j, replaceInfo) ==
  IF j > Len(props) THEN [found |-> FALSE, node |-> node]
  ELSE Bind(restoreReplaceNodeProp(node, props[j], replaceInfo),
         LAMBDA r : IF r.found THEN r ELSE restoreProps(node, props, j + 1, replaceInfo))

\* infos without its k-th element: infos.splice(k, 1)
splice(infos, k) == SubSeq(infos, 1, k - 1) \o SubSeq(infos, k + 1, Len(infos))

\* restoreInfos without the splice of the restored entry
RECURSIVE restoreInfos_noSplice(_, _, _, _, _, _)
restoreInfos_noSplice(node, props, infos, k, cssText, filtered) ==
  IF k > Len(infos) THEN [found |-> FALSE, node |-> node, infos |-> infos]
  ELSE IF filtered /\ ~includes(cssText, infos[k].random)
  THEN restoreInfos_noSplice(node, props, infos, k + 1, cssText, filtered)
  ELSE Bind(restoreProps(node, props, 1, infos[k]),
         LAMBDA r :
           IF r.found THEN [found |-> TRUE, node |-> r.node, infos |-> infos]
           ELSE restoreInfos_noSplice(node, props, infos, k + 1, cssText, filtered))

\* the for loop over replaces or comments from the k-th on; filtered: whether
\* an info whose random string is not in cssText is passed over
RECURSIVE restoreInfos(_, _, _, _, _, _)
restoreInfos(node, props, infos, k, cssText, filtered) ==
  IF k > Len(infos) THEN [found |-> FALSE, node |-> node, infos |-> infos]
  ELSE IF filtered /\ ~includes(cssText, infos[k].random)
  THEN restoreInfos(node, props, infos, k + 1, cssText, filtered)
  ELSE Bind(restoreProps(node, props, 1, infos[k]),
         LAMBDA r :
           IF r.found THEN [found |-> TRUE, node |-> r.node, infos |-> splice(infos, k)]
           ELSE restoreInfos(node, props, infos, k + 1, cssText, filtered))

restoreReplaceds(node, replaces, cssText) ==
  restoreInfos(node,
               IF node.type \in {"tag", "class", "id", "combinator", "pseudo", "string"}
               THEN <<"value">> ELSE << >>,
               replaces, 1, cssText, TRUE)

restoreComments(node, comments, cssText) ==
  restoreInfos(node,
               (IF node.type = "comment" THEN <<"value">> ELSE << >>)
               \o <<"raws.spaces.after", "raws.spaces.before">>,
               comments, 1, cssText, node.type = "comment")

\* while ((n = restoreReplaceds(node, replaces, cssText))) node = n
RECURSIVE restoreReplacedsLoop(_, _, _)
restoreReplacedsLoop(node, replaces, cssText) ==
  Bind(restoreReplaceds(node, replaces, cssText),
    LAMBDA r : IF r.found THEN restoreReplacedsLoop(r.node, r.infos, cssText)
               ELSE [node |-> node, infos |-> replaces])

\* while (restoreComments(node, comments, cssText)) {}
RECURSIVE restoreCommentsLoop(_, _, _)
restoreCommentsLoop(node, comments, cssText) ==
  Bind(restoreComments(node, comments, cssText),
    LAMBDA r : IF r.found THEN restoreCommentsLoop(r.node, r.infos, cssText)
               ELSE [node |-> node, infos |-> comments])

\* the part of restoreReplacedSelector for node.source: the positions in the
\* original text, and the text of the node in the substituted text
restoreSource(node, ctx) ==
  LET cssStarts == newLineStartIndices(ctx.cssSelector)
      orgStarts == newLineStartIndices(ctx.originalSelector)
      cssStartIndex == getIndexFromLoc(cssStarts, [line |-> node.source.start.line,
                                                   column |-> node.source.start.column - 1])
      cssEndIndex == getIndexFromLoc(cssStarts, node.source.end)
      startLoc == getLocFromIndex(ctx.originalSelector, orgStarts,
                                  remapIndex(ctx.remapContext, cssStartIndex))
      endLoc == getLocFromIndex(ctx.originalSelector, orgStarts,
                                remapIndex(ctx.remapContext, cssEndIndex))
  IN  [node |-> [node EXCEPT !.source =
                   [start |-> [line |-> startLoc.line, column |-> startLoc.column + 1],
                    end |-> endLoc]],
       cssText |-> Slice(ctx.cssSelector, cssStartIndex, cssEndIndex)]

RECURSIVE restoreReplacedSelector(_, _, _, _)
RECURSIVE restoreChildren(_, _, _, _, _)

\* restoreReplacedSelector(orgNode, replaceSelectorContext): the node, and the
\* lists replaces and comments of the context afterwards
restoreReplacedSelector(orgNode, ctx, replaces, comments) ==
  Bind(restoreSource(orgNode, ctx),
    LAMBDA s :
      Bind(restoreReplacedsLoop(s.node, replaces, s.cssText),
        LAMBDA r :
          Bind(restoreCommentsLoop(r.node, comments, s.cssText),
            LAMBDA c :
              Bind(restoreChildren(c.node.nodes, 1, ctx, r.infos, c.infos),
                LAMBDA ch :
                  [node |-> [c.node EXCEPT !.nodes = ch.nodes],
                   replaces |-> ch.replaces, comments |-> ch.comments]))))

\* the for loop over node.nodes from the k-th child on
restoreChildren(nodes, k, ctx, replaces, comments) ==
  IF k > Len(nodes) THEN [nodes |-> nodes, replaces |-> replaces, comments |-> comments]
  ELSE Bind(restoreReplacedSelector(nodes[k], ctx, replaces, comments),
         LAMBDA r : restoreChildren([nodes EXCEPT ![k] = r.node], k + 1, ctx,
                                    r.replaces, r.comments))

\* SCSSSelectorParser.parseInternal(selector)
SCSSSelectorParser_parseInternal(selector) ==
  Bind(replaceSelector(selector),
    LAMBDA ctx :
      IF ~hasReplace(ctx) THEN astSync(ctx.cssSelector)
      ELSE restoreReplacedSelector(astSync(ctx.cssSelector), ctx,
                                   ctx.replaces, ctx.comments).node)

SCSSSelectorParser_parseCommentsInternal(selector) ==
  SCSSSelectorParser_parseInternal(selector)

-----------------------------------------------------------------------------
(* CSSSelectorParser (css-selector-parser.js): the conversion of a selector *)
(* grammar tree.  The AST nodes live in a store, a function from the        *)
(* identity of a node to its fields; nodes and parent hold identities.  The *)
(* identity of a converted node is the path of its grammar node, the style  *)
(* rule being the empty path.                                               *)

RuleId == << >>
\* no node: the parent of the rule is not part of the store; a null result
NoId == <<-1>>

leadingSpaces(s) == Len(s) - Len(trimStart(s))
trailingSpaces(s) == Len(s) - Len(trimEnd(s))

getESLintLineAndColumnFromPostCSSSelectorParserNode(offsetLocation, node, locName) ==
  LET sourceLoc == IF locName = "start" THEN node.source.start ELSE node.source.end
      column0 == sourceLoc.column - 1
      line == IF sourceLoc.line = 1 THEN offsetLocation.line
              ELSE offsetLocation.line + sourceLoc.line - 1
      column == IF sourceLoc.line = 1 THEN offsetLocation.column + column0 ELSE column0
  IN  [line |-> line, column |-> IF locName = "end" THEN column + 1 ELSE column]

\* adjustBeforeParenLocation: the scan from end - 1 onwards finds `)` before any
\* other character that is not white space
beforeParenWithin(code, end) ==
  LET stops == {i \in Max(0, end - 1)..(Len(code) - 1) :
                  code[i + 1] = ")" \/ (code[i + 1] \notin WS /\ i # end - 1)}
  IN  stops # {} /\ code[(CHOOSE i \in stops : \A j \in stops : i <= j) + 1] = ")"

\* adjustAfterParenLocation: the scan from start - 1 backwards finds `(` before
\* any other character that is not white space
afterParenWithin(code, start) ==
  LET stops == {i \in 0..Min(start - 1, Len(code) - 1) :
                  code[i + 1] = "(" \/ code[i + 1] \notin WS}
  IN  stops # {} /\ code[(CHOOSE i \in stops : \A j \in stops : j <= i) + 1] = "("

\* convertSelectorNode, adjust before spaces and after spaces: the new range
adjustSpaces(code, start, end) ==
  LET before == leadingSpaces(Slice(code, start, end))
  IN  [start |-> start + before,
       end |-> end - trailingSpaces(Slice(code, start + before, end))]

\* adjustBeforeParenLocation: the new start; source is code.slice(start, end)
adjustBeforeParenLocation(code, start, end) ==
  LET source == Slice(code, start, end)
  IN  IF Len(source) > 0 /\ source[1] = "(" /\ beforeParenWithin(code, end)
      THEN start + 1 + leadingSpaces(Tail(source))
      ELSE start

\* adjustAfterParenLocation: the new end; source is code.slice(start, end)
adjustAfterParenLocation(code, start, end) ==
  LET source == Slice(code, start, end)
  IN  IF Len(source) > 0 /\ source[Len(source)] = ")" /\ afterParenWithin(code, start)
      THEN end - 1 - trailingSpaces(SubSeq(source, 1, Len(source) - 1))
      ELSE end

\* the range and loc convertSelectorNode gives the VCSSSelector
convertSelectorNode(sc, loc, start, end) ==
  Bind(adjustSpaces(sc.code, start, end),
    LAMBDA s :
      Bind(adjustBeforeParenLocation(sc.code, s.start, s.end),
        LAMBDA start2 :
          Bind(adjustAfterParenLocation(sc.code, start2, s.end),
            LAMBDA end2 :
              [start |-> start2, end |-> end2,
               loc |-> [start |-> IF start2 # start
                                  THEN getLocFromIndex(sc.code, sc.starts, start2)
                                  ELSE loc.start,
                        end |-> IF end2 # end
                                THEN getLocFromIndex(sc.code, sc.starts, end2)
                                ELSE loc.end]])))

\* new Node(node, type, loc, start, end) with its parent, value and nodes
AstNode(id, type, value, loc, start, end, parent) ==
  [id |-> id, type |-> type, value |-> value, nodes |-> << >>,
   start |-> start, end |-> end, loc |-> loc, parent |-> parent]

AddNode(store, node) == (node.id :> node) @@ store

\* the while loop that looks at the parent only
raiseParents_parentOnly(store, p, endIndex, locEnd) ==
  IF p = NoId \/ store[p].end >= endIndex THEN store
  ELSE [store EXCEPT ![p].end = endIndex, ![p].loc.end = locEnd]

\* the while loop of adjustEndLocation from the ancestor p on
RECURSIVE raiseParents(_, _, _, _)
raiseParents(store, p, endIndex, locEnd) ==
  IF p = NoId \/ store[p].end >= endIndex THEN store
  ELSE raiseParents([store EXCEPT ![p].end = endIndex, ![p].loc.end = locEnd],
                    store[p].parent, endIndex, locEnd)

\* adjustEndLocation that leaves the ancestors as they are
adjustEndLocation_nodeOnly(store, id, endIndex, sc) ==
  IF store[id].end = endIndex THEN store
  ELSE [store EXCEPT ![id].end = endIndex,
                     ![id].loc.end = getLocFromIndex(sc.code, sc.starts, endIndex)]

adjustEndLocation(store, id, endIndex, sc) ==
  IF store[id].end = endIndex THEN store
  ELSE LET locEnd == getLocFromIndex(sc.code, sc.starts, endIndex)
       IN  raiseParents([store EXCEPT ![id].end = endIndex, ![id].loc.end = locEnd],
                        store[id].parent, endIndex, locEnd)

\* node.value.replace(/^\s*\/\*/u, "").replace(/\*\/\s*$/u, "")
selectorCommentText(value) ==
  LET v0 == trimStart(value)
      v1 == IF Len(v0) >= 2 /\ v0[1] = "/" /\ v0[2] = "*"
            THEN Slice(v0, 2, Len(v0)) ELSE value
      v2 == trimEnd(v1)
  IN  IF Len(v2) >= 2 /\ v2[Len(v2) - 1] = "*" /\ v2[Len(v2)] = "/"
      THEN Slice(v2, 0, Len(v2) - 2) ELSE v1

astTypeOf(type) ==
  CASE type = "selector" -> "VCSSSelector"
    [] type = "class" -> "VCSSClassSelector"
    [] type = "tag" -> "VCSSTypeSelector"
    [] type = "pseudo" -> "VCSSSelectorPseudo"
    [] type = "combinator" -> "VCSSSelectorCombinator"
    [] type = "string" -> "VCSSUnknownSelector"
    [] OTHER -> "VCSSUnknownSelector"

\* the new VCSSSelector of normalizePseudoParams around the nodes of buffer
wrapBuffer(store, pseudo, buffer) ==
  LET startNode == store[buffer[1]]
      endNode == store[buffer[Len(buffer)]]
      wrapper == [AstNode(buffer[1] \o <<-1>>, "VCSSSelector", << >>,
                          [start |-> startNode.loc.start, end |-> endNode.loc.end],
                          startNode.start, endNode.end, pseudo)
                  EXCEPT !.nodes = buffer]
  IN  wrapper

RECURSIVE normalizeFrom(_, _, _, _, _, _)
normalizeFrom(store, pseudo, nodes, k, results, buffer) ==
  IF k > Len(nodes)
  THEN IF buffer # << >>
       THEN [store |-> AddNode(store, wrapBuffer(store, pseudo, buffer)),
             results |-> Append(results, wrapBuffer(store, pseudo, buffer).id)]
       ELSE [store |-> store, results |-> results]
  ELSE IF store[nodes[k]].type = "VCSSSelector"
  THEN IF buffer # << >>
       THEN normalizeFrom(AddNode(store, wrapBuffer(store, pseudo, buffer)), pseudo, nodes,
                          k + 1,
                          results \o <<wrapBuffer(store, pseudo, buffer).id, nodes[k]>>,
                          << >>)
       ELSE normalizeFrom(store, pseudo, nodes, k + 1, Append(results, nodes[k]), buffer)
  ELSE normalizeFrom(store, pseudo, nodes, k + 1, results, Append(buffer, nodes[k]))

normalizePseudoParams(store, pseudo, nodes) ==
  normalizeFrom(store, pseudo, nodes, 1, << >>, << >>)

\* what a conversion step works on: the store, the comment container and
\* whether a TypeError was thrown
SelState(store, comments, threw) == [store |-> store, comments |-> comments, threw |-> threw]

\* CSSSelectorParser.convertCommentNode: the comment it pushes
SelComment(node, loc, start, end, parent) ==
  [type |-> "VCSSComment", text |-> selectorCommentText(node.value), loc |-> loc,
   start |-> start, end |-> end, parent |-> parent]

\* node.value.replace(/^\s*\/\//u, "") for a value that starts with "//"
inlineCommentText(value) == Slice(value, 2, Len(value))

\* convertCommentNode of the parser in use (sc.scss: SCSSSelectorParser): the
\* comment it pushes to the comment container
convertCommentNode(sc, node, loc, start, end, parent) ==
  IF sc.scss /\ startsAt(node.value, <<"/", "/">>, 0)
  THEN [type |-> "VCSSInlineComment", text |-> inlineCommentText(node.value), loc |-> loc,
        start |-> start, end |-> end, parent |-> parent]
  ELSE SelComment(node, loc, start, end, parent)

\* root.walkComments: the comment nodes below node, in the order of the text
RECURSIVE walkComments(_)
RECURSIVE walkCommentsOf(_, _)
walkComments(node) == walkCommentsOf(node.nodes, 1)
walkCommentsOf(nodes, k) ==
  IF k > Len(nodes) THEN << >>
  ELSE (IF nodes[k].type = "comment" THEN <<nodes[k]>> ELSE walkComments(nodes[k]))
       \o walkCommentsOf(nodes, k + 1)

\* the comments of parseCommentsInternal(selector) of the parser in use
parseCommentsInternal(sc, selector) ==
  IF sc.scss THEN walkComments(SCSSSelectorParser_parseCommentsInternal(selector))
  ELSE CSSSelectorParser_parseCommentsInternal(selector)

\* convertCommentNode for each of the comments, with the offset they are given
RECURSIVE convertComments(_, _, _, _, _, _)
convertComments(sc, offsetLocation, comments, k, parent, st) ==
  IF k > Len(comments) THEN st
  ELSE
    LET node == comments[k]
        loc == [start |-> getESLintLineAndColumnFromPostCSSSelectorParserNode(
                            offsetLocation, node, "start"),
                end |-> getESLintLineAndColumnFromPostCSSSelectorParserNode(
                            offsetLocation, node, "end")]
        c == convertCommentNode(sc, node, loc, getIndexFromLoc(sc.starts, loc.start),
                                getIndexFromLoc(sc.starts, loc.end), parent)
    IN  convertComments(sc, offsetLocation, comments, k + 1, parent,
                        [st EXCEPT !.comments = Append(@, c)])

parseRawsSpaces(sc, id, node, parent, st) ==
  LET after == node.raws.spaces.after
      before == node.raws.spaces.before
      st1 == IF trim(after) # << >>
             THEN convertComments(sc, st.store[id].loc.end,
                                  parseCommentsInternal(sc, after), 1, parent, st)
             ELSE st
  IN  IF trim(before) # << >>
      THEN convertComments(sc,
                           getLocFromIndex(sc.code, sc.starts,
                                           st1.store[id].start - Len(before)),
                           parseCommentsInternal(sc, before), 1, parent, st1)
      ELSE st1

\* the identities of the records of a list
IdsOf(nodes) == [k \in 1..Len(nodes) |-> nodes[k].id]

RECURSIVE AddNodes(_, _)
AddNodes(store, nodes) ==
  IF nodes = << >> THEN store
  ELSE AddNodes(IF Head(nodes).id \in DOMAIN store THEN store
                ELSE AddNode(store, Head(nodes)), Tail(nodes))

RECURSIVE mapChildren(_, _, _, _, _, _, _)
RECURSIVE postcssSelectorParserNodeChiildrenToASTNodes(_, _, _, _, _)

\* _postcssSelectorParserNodeToASTNode; ast is NoId for a null result
postcssSelectorParserNodeToASTNode(sc, offsetLocation, node, parent, id, st) ==
  LET loc == [start |-> getESLintLineAndColumnFromPostCSSSelectorParserNode(
                            offsetLocation, node, "start"),
              end |-> getESLintLineAndColumnFromPostCSSSelectorParserNode(
                            offsetLocation, node, "end")]
      start == getIndexFromLoc(sc.starts, loc.start)
      end == getIndexFromLoc(sc.starts, loc.end)
      r == IF node.type = "selector" THEN convertSelectorNode(sc, loc, start, end)
           ELSE [start |-> start, end |-> end, loc |-> loc]
      astNode == AstNode(id, astTypeOf(node.type), node.value, r.loc, r.start, r.end, parent)
      store1 == AddNode(st.store, astNode)
      store2 == IF node.type \in {"combinator", "string"}
                THEN adjustEndLocation(store1, id, start + Len(astNode.value), sc)
                ELSE store1
  IN  IF st.threw THEN [st |-> st, ast |-> NoId]
      ELSE IF node.type = "comment"
      THEN [st |-> [st EXCEPT !.comments =
                      Append(@, convertCommentNode(sc, node, loc, start, end, parent))],
            ast |-> NoId]
      ELSE Bind(parseRawsSpaces(sc, id, node, parent, [st EXCEPT !.store = store2]),
             LAMBDA st2 :
               IF node.type \notin {"pseudo", "selector"} THEN [st |-> st2, ast |-> id]
               ELSE Bind(postcssSelectorParserNodeChiildrenToASTNodes(
                             sc, offsetLocation, node, id, st2),
                      LAMBDA c :
                        IF c.st.threw THEN [st |-> c.st, ast |-> NoId]
                        ELSE IF node.type = "pseudo"
                        THEN Bind(normalizePseudoParams(c.st.store, id, c.astNodes),
                               LAMBDA n :
                                 [st |-> [c.st EXCEPT !.store =
                                            [n.store EXCEPT ![id].nodes = n.results]],
                                  ast |-> id])
                        ELSE [st |-> [c.st EXCEPT !.store[id].nodes = c.astNodes],
                              ast |-> id]))

\* node.nodes.map(...).filter(isDefined), from the k-th child on; a throw ends it
mapChildren(sc, offsetLocation, children, k, parent, st, astNodes) ==
  IF st.threw \/ k > Len(children) THEN [st |-> st, astNodes |-> astNodes]
  ELSE Bind(postcssSelectorParserNodeToASTNode(sc, offsetLocation, children[k], parent,
                                               parent \o <<k>>, st),
         LAMBDA c :
           mapChildren(sc, offsetLocation, children, k + 1, parent, c.st,
                       IF c.ast = NoId THEN astNodes ELSE Append(astNodes, c.ast)))

\* the location adjustment of _postcssSelectorParserNodeChiildrenToASTNodes for
\* the converted children m and the pruned list astNodes
adjustLocations(node, parent, m, astNodes) ==
  LET store1 == AddNodes(m.st.store, astNodes)
      adjust == Len(astNodes) # Len(node.nodes) /\ node.type = "selector"
  IN  IF adjust /\ astNodes = << >>
      \* astNodes[0] is undefined: reading its loc throws a TypeError
      THEN [st |-> [m.st EXCEPT !.threw = TRUE], astNodes |-> << >>]
      ELSE IF adjust
      THEN LET firstAstNode == astNodes[1]
               lastAstNode == astNodes[Len(astNodes)]
           IN  [st |-> [m.st EXCEPT !.store =
                          [store1 EXCEPT ![parent].loc.start = firstAstNode.loc.start,
                                         ![parent].start = firstAstNode.start,
                                         ![parent].loc.end = lastAstNode.loc.end,
                                         ![parent].end = lastAstNode.end]],
                astNodes |-> IdsOf(astNodes)]
      ELSE [st |-> [m.st EXCEPT !.store = store1], astNodes |-> IdsOf(astNodes)]

\* _postcssSelectorParserNodeChiildrenToASTNodes
postcssSelectorParserNodeChiildrenToASTNodes(sc, offsetLocation, node, parent, st) ==
  Bind(mapChildren(sc, offsetLocation, node.nodes, 1, parent, st, << >>),
    LAMBDA m :
      IF m.st.threw THEN [st |-> m.st, astNodes |-> << >>]
      ELSE Bind(removeInvalidDescendantCombinator(
                  [k \in 1..Len(m.astNodes) |-> m.st.store[m.astNodes[k]]]),
             LAMBDA astNodes : adjustLocations(node, parent, m, astNodes)))

\* CSSSelectorParser.parse(rawSelector, offsetLocation, parent): the selectors of
\* the style rule in.rule, and the state of the conversion
CSSSelectorParser_parse(in) ==
  Bind([code |-> in.code, starts |-> newLineStartIndices(in.code), scss |-> in.scss],
    LAMBDA sc :
      Bind(postcssSelectorParserNodeChiildrenToASTNodes(
               sc, in.rule.loc.start, in.root, RuleId,
               SelState(RuleId :> in.rule, << >>, FALSE)),
        LAMBDA c :
          [called |-> TRUE, threw |-> c.st.threw, store |-> c.st.store,
           selectors |-> c.astNodes, comments |-> c.st.comments]))

\* Host documents: the text before the rule, and the selectors after the first
SelContexts ==
  { [prefix |-> << >>, tail |-> << >>],
    [prefix |-> <<"a", LF, " ">>,
     tail |-> <<SelSpec(<<" ">>, <<"cls", "descCmt", "isPad">>, << >>)>>],
    [prefix |-> <<"a">>,
     tail |-> <<SelSpec(<<LF>>, <<"isCmt", "deep">>, << >>)>>],
    \* a comment after the last comma of the selector list
    [prefix |-> << >>, tail |-> <<SelSpec(<< >>, <<"cmt">>, << >>)>>] }

SelInput(prefix, sels) ==
  LET raw == selListText(sels)
      code == prefix \o raw \o <<"{", "}">>
      starts == newLineStartIndices(code)
  IN  [code |-> code, rawSelectorText |-> raw, sels |-> sels, scss |-> FALSE,
       root |-> CSSSelectorParser_parseInternal(sels),
       rule |-> AstNode(RuleId, "VCSSStyleRule", << >>,
                        [start |-> getLocFromIndex(code, starts, Len(prefix)),
                         end |-> getLocFromIndex(code, starts, Len(code))],
                        Len(prefix), Len(code), NoId)]

InitSel ==
  /\ \E ctx \in SelContexts, parts \in SeqsUpTo(FirstKinds, MaxParts) :
       /\ parts # << >>
       \* white space before a comma, a `)` or the end of the selector text is
       \* part of the node before it, never a combinator
       /\ parts[Len(parts)] # "desc"
       /\ selIn = SelInput(ctx.prefix, <<SelSpec(<< >>, parts, << >>)>> \o ctx.tail)
  /\ selOut = NotCalled
  /\ IdleLoc
  /\ IdleParse
  /\ IdleRidc
  /\ IdleScss
  /\ IdleDecl
  /\ IdleCopy
  /\ IdleRead
  /\ IdleCalls
  /\ IdleRule
  /\ IdleCfg
  /\ IdleRoll
  /\ IdleAdj
  /\ IdleRest
  /\ IdleNorm

ParseSelector ==
  /\ selOut = NotCalled
  /\ selOut' = CSSSelectorParser_parse(selIn)
  /\ UNCHANGED <<selIn, locVars, parseVars, ridcVars, scssVars, declVars, copyVars, readVars, callVars, ruleVars, cfgVars, rollVars, adjVars, restVars, normVars>>

NextSel == ParseSelector

SpecSel == InitSel /\ [][NextSel]_vars

-----------------------------------------------------------------------------
(* SCSSSelectorParser on the selector of a style rule: a compound selector, *)
(* then separators each followed by a compound selector, then the end of    *)
(* the selector text.                                                       *)

\* bound: number of separators of the selector
MaxSeps == 1

\* `.a`, `.a#{$b}`, `#{$b}-c`, `.a#{'$'}`
ScssCompounds ==
  { <<".", "a">>,
    <<".", "a", "#", "{", "$", "b", "}">>,
    <<"#", "{", "$", "b", "}", "-", "c">>,
    <<".", "a", "#", "{", Apostrophe, "$", Apostrophe, "}">> }

\* white space, `>`, white space with an inline comment, an inline comment
\* that touches the compound selector before it, a block comment
ScssSeparators ==
  { <<" ">>,
    <<">">>,
    <<" ", "/", "/", " ", "c", LF>>,
    <<"/", "/", "c", LF>>,
    <<"/", "*", "c", "*", "/">> }

\* the end of the selector text: nothing, or white space and an inline comment
ScssTrails == { << >>, <<" ", "/", "/", "c">> }

\* the text before the rule in the host document
ScssPrefixes == { << >>, <<"a", LF>> }

\* the selector texts with n separators
RECURSIVE ScssSelectors(_)
ScssSelectors(n) ==
  IF n = 0 THEN ScssCompounds
  ELSE {s \o sep \o c : s \in ScssSelectors(n - 1), sep \in ScssSeparators, c \in ScssCompounds}

ScssInput(prefix, raw) ==
  LET code == prefix \o raw \o <<"{", "}">>
      starts == newLineStartIndices(code)
  IN  [code |-> code, prefix |-> prefix, rawSelectorText |-> raw,
       rule |-> AstNode(RuleId, "VCSSStyleRule", << >>,
                        [start |-> getLocFromIndex(code, starts, Len(prefix)),
                         end |-> getLocFromIndex(code, starts, Len(code))],
                        Len(prefix), Len(code), NoId)]

\* SCSSSelectorParser.parse(rawSelector, offsetLocation, parent), inherited from
\* CSSSelectorParser
SCSSSelectorParser_parse(in) ==
  CSSSelectorParser_parse([code |-> in.code, rule |-> in.rule, scss |-> TRUE,
                           root |-> SCSSSelectorParser_parseInternal(in.rawSelectorText)])

InitScss ==
  /\ \E prefix \in ScssPrefixes, n \in 0..MaxSeps, trail \in ScssTrails :
       \E raw \in ScssSelectors(n) : scssIn = ScssInput(prefix, raw \o trail)
  /\ scssTree = NotCalled
  /\ scssOut = NotCalled
  /\ IdleLoc
  /\ IdleParse
  /\ IdleRidc
  /\ IdleSel
  /\ IdleDecl
  /\ IdleCopy
  /\ IdleRead
  /\ IdleCalls
  /\ IdleRule
  /\ IdleCfg
  /\ IdleRoll
  /\ IdleAdj
  /\ IdleRest
  /\ IdleNorm

ScssParseInternal ==
  /\ scssTree = NotCalled
  /\ scssTree' = [called |-> TRUE,
                  root |-> SCSSSelectorParser_parseInternal(scssIn.rawSelectorText)]
  /\ UNCHANGED <<scssIn, scssOut, locVars, parseVars, ridcVars, selVars, declVars, copyVars, readVars, callVars, ruleVars, cfgVars, rollVars, adjVars, restVars, normVars>>

ScssParse ==
  /\ scssOut = NotCalled
  /\ scssOut' = SCSSSelectorParser_parse(scssIn)
  /\ UNCHANGED <<scssIn, scssTree, locVars, parseVars, ridcVars, selVars, declVars, copyVars, readVars, callVars, ruleVars, cfgVars, rollVars, adjVars, restVars, normVars>>

NextScss == ScssParseInternal \/ ScssParse

SpecScss == InitScss /\ [][NextScss]_vars

-----------------------------------------------------------------------------
(* CSSParser.convertDeclNode (css-parser.js): the star hack.  The grammar   *)
(* engine reports node.prop and the start of the declaration; the while     *)
(* loop is taken one iteration at a time.                                   *)

\* bound: longest source text of the declaration's document
MaxDeclLen == 4
\* bound: the iterations of the while loop that are followed
MaxStar == 4

DeclChars == {"*", "c", ":"}
DeclProps == { <<"c">>, <<"c", "c">>, <<"c", ":">> }

\* the assignments of one iteration of the while loop: property and textProp
declWhileBody_longerStar(code, start, prop, starLength, textProp) ==
  LET property == Slice(textProp, 0, starLength + 1) \o prop
  IN  [property |-> property,
       textProp |-> Slice(code, start, start + Len(property))]

declWhileBody(code, start, prop, starLength, textProp) ==
  LET property == Slice(textProp, 0, starLength) \o prop
  IN  [property |-> property,
       textProp |-> Slice(code, start, start + Len(property))]

InitDecl ==
  /\ \E code \in SeqsUpTo(DeclChars, MaxDeclLen), prop \in DeclProps :
       \E start \in 0..Len(code) :
         declIn = [called |-> TRUE, code |-> code, start |-> start, prop |-> prop]
  /\ declProperty = << >>
  /\ declStarLength = 0
  /\ declTextProp = << >>
  /\ declPc = "init"
  /\ IdleLoc
  /\ IdleParse
  /\ IdleRidc
  /\ IdleSel
  /\ IdleScss
  /\ IdleCopy
  /\ IdleRead
  /\ IdleCalls
  /\ IdleRule
  /\ IdleCfg
  /\ IdleRoll
  /\ IdleAdj
  /\ IdleRest
  /\ IdleNorm

\* the statements before the while loop
ConvertDeclNode ==
  /\ declPc = "init"
  /\ declProperty' = declIn.prop
  /\ declStarLength' = 1
  /\ declTextProp' = Slice(declIn.code, declIn.start, declIn.start + Len(declIn.prop))
  /\ declPc' = "loop"
  /\ UNCHANGED <<declIn, locVars, parseVars, ridcVars, selVars, scssVars, copyVars, readVars, callVars, ruleVars, cfgVars, rollVars, adjVars, restVars, normVars>>

\* one iteration of while (property !== textProp)
DeclWhile ==
  /\ declPc = "loop"
  /\ declProperty # declTextProp
  /\ declStarLength <= MaxStar
  /\ LET r == declWhileBody(declIn.code, declIn.start, declIn.prop,
                            declStarLength, declTextProp)
     IN  /\ declProperty' = r.property
         /\ declTextProp' = r.textProp
  /\ declStarLength' = declStarLength + 1
  /\ UNCHANGED <<declIn, declPc, locVars, parseVars, ridcVars, selVars, scssVars, copyVars, readVars, callVars, ruleVars, cfgVars, rollVars, adjVars, restVars, normVars>>

\* the loop ends: new VCSSDeclarationProperty(..., { parent, property })
DeclReturn ==
  /\ declPc = "loop"
  /\ declProperty = declTextProp
  /\ declPc' = "done"
  /\ UNCHANGED <<declIn, declProperty, declStarLength, declTextProp,
                 locVars, parseVars, ridcVars, selVars, scssVars, copyVars, readVars, callVars, ruleVars, cfgVars, rollVars, adjVars, restVars, normVars>>

NextDecl == ConvertDeclNode \/ DeclWhile \/ DeclReturn

SpecDecl == InitDecl /\ [][NextDecl]_vars

-----------------------------------------------------------------------------
(* ast.js: the node classes.  A JavaScript value is a record tagged with    *)
(* its sort; an object is the record of its own fields.                     *)

JsNull == [js |-> "null"]
JsUndefined == [js |-> "undefined"]
JsString(s) == [js |-> "string", v |-> s]
JsNumber(n) == [js |-> "number", v |-> n]
JsBoolean(b) == [js |-> "boolean", v |-> b]
JsArray(a) == [js |-> "array", v |-> a]
JsObject(o) == [js |-> "object", v |-> o]

\* v == null
nullish(v) == v.js \in {"null", "undefined"}
\* o.name for the fields o of an object
member(o, name) == IF name \in DOMAIN o THEN o[name] ELSE JsUndefined
\* a ?? b
coalesce(a, b) == IF nullish(a) THEN b ELSE a
\* Boolean(v)
truthy(v) ==
  CASE nullish(v) -> FALSE
    [] v.js = "string" -> v.v # ""
    [] v.js = "boolean" -> v.v
    [] v.js = "number" -> v.v # 0
    [] OTHER -> TRUE
\* the text of v in a template literal
toText(v) == IF v.js = "string" THEN v.v ELSE IF v.js = "null" THEN "null" ELSE "undefined"

\* no props: copy() without an argument
NoProps == [name \in {} |-> JsNull]

\* getProp(props, node, name) of ast.js; node is an object
ast_getProp(props, node, name) ==
  IF ~nullish(member(props, name)) THEN props[name] ELSE member(node.v, name)

\* the classes that extend HasParentNode
HasParentTypes ==
  {"VCSSStyleRule", "VCSSDeclarationProperty", "VCSSAtRule", "VCSSUnknown", "VCSSSelector",
   "VCSSTypeSelector", "VCSSIDSelector", "VCSSClassSelector", "VCSSNestingSelector",
   "VCSSUniversalSelector", "VCSSAttributeSelector", "VCSSSelectorPseudo",
   "VCSSSelectorCombinator", "VCSSUnknownSelector", "VCSSComment", "VCSSInlineComment"}
NodeTypes == HasParentTypes \cup {"VCSSStyleSheet", "VCSSParsingError"}

\* the selector kinds that keep their text in a field set by the constructor
ValueSelectorTypes ==
  {"VCSSTypeSelector", "VCSSIDSelector", "VCSSClassSelector", "VCSSNestingSelector",
   "VCSSUniversalSelector", "VCSSSelectorCombinator", "VCSSUnknownSelector"}

\* Node.constructor
Node_constructor(node, type, loc, start, end, nodeLang) ==
  [type |-> JsString(type), loc |-> loc, start |-> start, end |-> end,
   range |-> JsArray(<<start, end>>), node |-> node, lang |-> nodeLang]

\* VCSSAttributeSelector.refreshSelector for the fields o
refreshSelector(o) ==
  "[" \o toText(o.attribute)
  \o (IF ~nullish(o.operator)
      THEN toText(o.operator)
           \o (IF ~nullish(o.value)
               THEN (IF truthy(o.quoteMark)
                     THEN toText(o.quoteMark) \o toText(o.value) \o toText(o.quoteMark)
                     ELSE toText(o.value))
               ELSE "")
      ELSE "")
  \o (IF ~nullish(o.insensitiveFlag) THEN " " \o toText(o.insensitiveFlag) ELSE "")
  \o "]"

\* the fields the constructor of VCSSAttributeSelector sets before this.selector
attributeFields(node, props) ==
  [attribute |-> ast_getProp(props, node, "attribute"),
   operator |-> coalesce(ast_getProp(props, node, "operator"), JsNull),
   value |-> coalesce(ast_getProp(props, node, "value"), JsNull),
   quoteMark |-> coalesce(ast_getProp(props, node, "quoteMark"), JsNull),
   insensitiveFlag |->
     IF ~nullish(member(props, "insensitiveFlag")) THEN props.insensitiveFlag
     ELSE IF ~nullish(member(member(node.v, "raws").v, "insensitiveFlag"))
     THEN member(node.v, "raws").v.insensitiveFlag
     ELSE IF truthy(member(node.v, "insensitive")) THEN JsString("i")
     ELSE JsNull]

\* node.raws.selector ? raws.selector.raw : node.selector, and raws.params?.raw ?? node.params
rawOf(node, name, plain) ==
  LET raw == member(member(node.v, "raws").v, name)
  IN  IF name = "selector"
      THEN (IF truthy(raw) THEN member(raw.v, "raw") ELSE member(node.v, plain))
      ELSE coalesce(IF nullish(raw) THEN JsUndefined ELSE member(raw.v, "raw"),
                    member(node.v, plain))

\* the fields a class's constructor sets after those of Node and HasParentNode
ownFields(type, node, commentText, props) ==
  CASE type = "VCSSStyleSheet" ->
         [nodes |-> coalesce(member(props, "nodes"), JsArray(<< >>)),
          comments |-> coalesce(member(props, "comments"), JsArray(<< >>)),
          errors |-> coalesce(member(props, "errors"), JsArray(<< >>))]
    [] type = "VCSSParsingError" -> [message |-> member(props, "message")]
    [] type = "VCSSStyleRule" ->
         [selectorText |-> coalesce(member(props, "selectorText"), member(node.v, "selector")),
          rawSelectorText |-> IF ~nullish(member(props, "rawSelectorText"))
                              THEN props.rawSelectorText
                              ELSE rawOf(node, "selector", "selector"),
          selectors |-> coalesce(member(props, "selectors"), JsArray(<< >>)),
          nodes |-> coalesce(member(props, "nodes"), JsArray(<< >>))]
    [] type = "VCSSDeclarationProperty" ->
         [property |-> coalesce(member(props, "property"), member(node.v, "prop")),
          value |-> ast_getProp(props, node, "value"),
          important |-> coalesce(member(props, "important"),
                                 JsBoolean(truthy(member(node.v, "important"))))]
    [] type = "VCSSAtRule" ->
         [name |-> ast_getProp(props, node, "name"),
          identifier |-> member(props, "identifier"),
          paramsText |-> coalesce(member(props, "paramsText"), member(node.v, "params")),
          rawParamsText |-> IF ~nullish(member(props, "rawParamsText"))
                            THEN props.rawParamsText
                            ELSE rawOf(node, "params", "params"),
          selectors |-> coalesce(member(props, "selectors"), JsUndefined),
          nodes |-> coalesce(member(props, "nodes"), JsArray(<< >>))]
    [] type = "VCSSUnknown" ->
         [nodes |-> coalesce(member(props, "nodes"), JsArray(<< >>)),
          unknownType |-> member(props, "unknownType")]
    [] type = "VCSSSelector" -> [nodes |-> coalesce(member(props, "nodes"), JsArray(<< >>))]
    [] type \in {"VCSSTypeSelector", "VCSSNestingSelector", "VCSSUniversalSelector",
                 "VCSSSelectorCombinator"} ->
         [value |-> ast_getProp(props, node, "value"),
          selector |-> ast_getProp(props, node, "value")]
    [] type = "VCSSIDSelector" ->
         [value |-> ast_getProp(props, node, "value"),
          selector |-> JsString("#" \o toText(ast_getProp(props, node, "value")))]
    [] type = "VCSSClassSelector" ->
         [value |-> ast_getProp(props, node, "value"),
          selector |-> JsString("." \o toText(ast_getProp(props, node, "value")))]
    [] type = "VCSSUnknownSelector" ->
         LET value == IF truthy(ast_getProp(props, node, "value"))
                      THEN ast_getProp(props, node, "value") ELSE JsString("")
         IN  [value |-> value, selector |-> value]
    [] type = "VCSSAttributeSelector" ->
         attributeFields(node, props)
         @@ [selector |-> JsString(refreshSelector(attributeFields(node, props)))]
    [] type = "VCSSSelectorPseudo" ->
         [value |-> ast_getProp(props, node, "value"),
          nodes |-> coalesce(member(props, "nodes"), JsArray(<< >>))]
    [] type \in {"VCSSComment", "VCSSInlineComment"} -> [text |-> commentText]

\* the result of a call that threw a TypeError
TypeError == [threw |-> TRUE]
Constructed(o) == [threw |-> FALSE, obj |-> o]

\* new C(node, loc, start, end, props), and new C(node, text, loc, start, end,
\* props) for the comment classes: HasParentNode reads props.parent.lang
construct(type, node, commentText, loc, start, end, props) ==
  IF type \in HasParentTypes /\ nullish(member(props, "parent")) THEN TypeError
  ELSE Constructed(
         ownFields(type, node, commentText, props)
         @@ (IF type \in HasParentTypes THEN [parent |-> props.parent] ELSE NoProps)
         @@ Node_constructor(node, type, loc, start, end,
                             IF type \in HasParentTypes
                             THEN member(props.parent.v, "lang")
                             ELSE member(props, "lang")))

\* copyStdNode(astNode, props)
copyStdNode(astNode, props) ==
  construct(astNode.type.v,
            coalesce(member(props, "node"), astNode.node), JsUndefined,
            coalesce(member(props, "loc"), astNode.loc),
            coalesce(member(props, "start"), astNode.start),
            coalesce(member(props, "end"), astNode.end),
            props @@ astNode)

\* VCSSComment.copy and VCSSInlineComment.copy
commentCopy(astNode, props) ==
  construct(astNode.type.v,
            coalesce(member(props, "node"), astNode.node),
            coalesce(member(props, "text"), astNode.text),
            coalesce(member(props, "loc"), astNode.loc),
            coalesce(member(props, "start"), astNode.start),
            coalesce(member(props, "end"), astNode.end),
            [parent |-> coalesce(member(props, "parent"), astNode.parent)]
            @@ props @@ astNode)

\* astNode.copy(props); VCSSParsingError has no method copy
copy(astNode, props) ==
  CASE astNode.type.v = "VCSSParsingError" -> TypeError
    [] astNode.type.v \in {"VCSSComment", "VCSSInlineComment"} -> commentCopy(astNode, props)
    [] OTHER -> copyStdNode(astNode, props)

\* astNode.selector: the getters of VCSSSelector and VCSSSelectorPseudo, else
\* the field
RECURSIVE selectorOf(_)
RECURSIVE joinSelectors(_, _, _)
joinSelectors(nodes, k, sep) ==
  IF k > Len(nodes) THEN ""
  ELSE toText(selectorOf(nodes[k].v)) \o (IF k < Len(nodes) THEN sep ELSE "")
       \o joinSelectors(nodes, k + 1, sep)
selectorOf(astNode) ==
  CASE astNode.type.v = "VCSSSelector" -> JsString(joinSelectors(astNode.nodes.v, 1, ""))
    [] astNode.type.v = "VCSSSelectorPseudo" ->
         IF Len(astNode.nodes.v) = 0 THEN astNode.value
         ELSE JsString(toText(astNode.value) \o "(" \o joinSelectors(astNode.nodes.v, 1, ",")
                       \o ")")
    [] OTHER -> member(astNode, "selector")

-----------------------------------------------------------------------------
(* One call of copy on a node of each class, as the parser builds it.       *)

MaxOverrides == 1

\* a grammar node with the fields the constructors read
GrammarNode(value) ==
  JsObject([value |-> JsString(value), prop |-> JsString("c"), selector |-> JsString(".a"),
            params |-> JsString("p"), name |-> JsString("media"),
            important |-> JsBoolean(FALSE), attribute |-> JsString("a"),
            operator |-> JsString("="), quoteMark |-> JsString(Apostrophe),
            insensitive |-> JsBoolean(FALSE), raws |-> JsObject(NoProps)])
ParentOf(l) == JsObject([type |-> JsString("VCSSStyleRule"), lang |-> JsString(l)])
LocOf(column) ==
  JsObject([start |-> [line |-> 1, column |-> column], end |-> [line |-> 1, column |-> column + 2]])

\* new C(node, loc, start, end, props) as css-parser.js and the selector parser call it
NewNode(type, value, props) ==
  construct(type, GrammarNode(value), JsString(" c "), LocOf(1), JsNumber(1), JsNumber(3),
            props @@ [parent |-> ParentOf("css"), lang |-> JsString("css")]).obj
ChildNodes == JsArray(<<JsObject(NewNode("VCSSClassSelector", "a", NoProps))>>)
AstNodes ==
  { NewNode(type, "b", NoProps) : type \in NodeTypes \ {"VCSSSelector", "VCSSSelectorPseudo",
                                                        "VCSSParsingError", "VCSSAtRule",
                                                        "VCSSUnknown"} }
  \cup { NewNode("VCSSSelector", "b", [nodes |-> ChildNodes]),
         NewNode("VCSSSelectorPseudo", ":not", [nodes |-> ChildNodes]),
         NewNode("VCSSSelectorPseudo", ":hover", NoProps),
         NewNode("VCSSParsingError", "b", [message |-> JsString("Unclosed block")]),
         NewNode("VCSSAtRule", "b", [identifier |-> JsString("@")]),
         NewNode("VCSSUnknown", "b", [unknownType |-> JsString("document")]) }

\* a value of the field's sort other than the one the nodes above hold
otherValue(field) ==
  CASE field \in {"start", "end"} -> JsNumber(7)
    [] field = "range" -> JsArray(<<JsNumber(7), JsNumber(9)>>)
    [] field = "loc" -> LocOf(7)
    [] field = "node" -> GrammarNode("z")
    [] field = "parent" -> ParentOf("scss")
    [] field = "important" -> JsBoolean(TRUE)
    [] field \in {"nodes", "selectors", "comments", "errors"} ->
         JsArray(<<JsObject(NewNode("VCSSTypeSelector", "z", NoProps))>>)
    [] OTHER -> JsString("z")

\* the overrides of at most k fields of a node, each a new value or null
RECURSIVE Overrides(_, _)
Overrides(astNode, k) ==
  IF k = 0 THEN {NoProps}
  ELSE Overrides(astNode, k - 1)
       \cup { (field :> (IF toNull THEN JsNull ELSE otherValue(field))) @@ props :
                field \in DOMAIN astNode, toNull \in BOOLEAN,
                props \in Overrides(astNode, k - 1) }

InitCopy ==
  /\ copyThis \in AstNodes
  /\ copyOut = NotCalled
  /\ IdleLoc
  /\ IdleParse
  /\ IdleRidc
  /\ IdleSel
  /\ IdleScss
  /\ IdleDecl
  /\ IdleRead
  /\ IdleCalls
  /\ IdleRule
  /\ IdleCfg
  /\ IdleRoll
  /\ IdleAdj
  /\ IdleRest
  /\ IdleNorm

Copy ==
  /\ ~copyOut.called
  /\ \E props \in Overrides(copyThis, MaxOverrides) :
       copyOut' = [called |-> TRUE, props |-> props, result |-> copy(copyThis, props)]
  /\ UNCHANGED <<copyThis, locVars, parseVars, ridcVars, selVars, scssVars, declVars, readVars, callVars, ruleVars, cfgVars, rollVars, adjVars, restVars, normVars>>

NextCopy == Copy

SpecCopy == InitCopy /\ [][NextCopy]_vars

-----------------------------------------------------------------------------
(* Assignments to the fields of a selector node, and reads of its selector. *)

MaxAssigns == 2

SelectorNodes ==
  { n \in AstNodes : n.type.v \in ValueSelectorTypes
                                  \cup {"VCSSAttributeSelector", "VCSSSelector",
                                        "VCSSSelectorPseudo"} }

\* the fields the text of a selector node is built from
textFields(astNode) ==
  CASE astNode.type.v = "VCSSAttributeSelector" ->
         {"attribute", "operator", "value", "quoteMark", "insensitiveFlag"}
    [] astNode.type.v = "VCSSSelector" -> {"nodes"}
    [] astNode.type.v = "VCSSSelectorPseudo" -> {"value", "nodes"}
    [] OTHER -> {"value"}

InitRead ==
  /\ readNode \in SelectorNodes
  /\ readAssigns = 0
  /\ readOut = NotCalled
  /\ IdleLoc
  /\ IdleParse
  /\ IdleRidc
  /\ IdleSel
  /\ IdleScss
  /\ IdleDecl
  /\ IdleCopy
  /\ IdleCalls
  /\ IdleRule
  /\ IdleCfg
  /\ IdleRoll
  /\ IdleAdj
  /\ IdleRest
  /\ IdleNorm

\* astNode.field = v
AssignField ==
  /\ readAssigns < MaxAssigns
  /\ \E field \in textFields(readNode) :
       readNode' = [readNode EXCEPT ![field] = otherValue(field)]
  /\ readAssigns' = readAssigns + 1
  /\ UNCHANGED <<readOut, locVars, parseVars, ridcVars, selVars, scssVars, declVars, copyVars, callVars, ruleVars, cfgVars, rollVars, adjVars, restVars, normVars>>

\* astNode.nodes[0].value = v, for a node with children
AssignChildValue ==
  /\ readAssigns < MaxAssigns
  /\ "nodes" \in DOMAIN readNode
  /\ Len(readNode.nodes.v) > 0
  /\ readNode' = [readNode EXCEPT !.nodes.v[1].v.value = otherValue("value")]
  /\ readAssigns' = readAssigns + 1
  /\ UNCHANGED <<readOut, locVars, parseVars, ridcVars, selVars, scssVars, declVars, copyVars, callVars, ruleVars, cfgVars, rollVars, adjVars, restVars, normVars>>

\* astNode.selector
ReadSelector ==
  /\ readOut' = [called |-> TRUE, selector |-> selectorOf(readNode)]
  /\ UNCHANGED <<readNode, readAssigns,
                 locVars, parseVars, ridcVars, selVars, scssVars, declVars, copyVars, callVars, ruleVars, cfgVars, rollVars, adjVars, restVars, normVars>>

NextRead == AssignField \/ AssignChildValue \/ ReadSelector

SpecRead == InitRead /\ [][NextRead]_vars

-----------------------------------------------------------------------------
(* Several calls of parse on one CSSParser instance.  The arrays are kept   *)
(* in callArrays and referred to by their index, so that two fields that    *)
(* hold the same array see each other's pushes.                             *)

MaxCalls == 2

\* the assignment left out: the field keeps the array it had
newArray_keeps(arrays, this, field) == [arrays |-> arrays, this |-> this]

\* this.field = []
newArray(arrays, this, field) ==
  [arrays |-> Append(arrays, << >>), this |-> [this EXCEPT ![field] = Len(arrays) + 1]]

\* array.push(...items)
push(arrays, ref, items) == [arrays EXCEPT ![ref] = @ \o items]

\* new CSSParser(sourceCode, lang)
NewCSSParser(doc, l) ==
  [arrays |-> << << >>, << >> >>,
   this |-> [sourceCode |-> doc, lang |-> l, commentContainer |-> 1, anyErrors |-> 2]]

\* this.parse(css, offsetLocation): the style sheet holds its comments and errors
\* arrays by reference
parseOn(arrays, this, css, offsetLocation, env) ==
  Bind(newArray(arrays, this, "commentContainer"), LAMBDA r1 :
  Bind(newArray(r1.arrays, r1.this, "anyErrors"), LAMBDA r2 :
  Bind(parseTry(r2.this.lang, env), LAMBDA pushed :
  Bind(push(push(r2.arrays, r2.this.commentContainer, pushed.commentContainer),
            r2.this.anyErrors, pushed.anyErrors), LAMBDA heap :
  Bind([pushed EXCEPT !.commentContainer = heap[r2.this.commentContainer],
                      !.anyErrors = heap[r2.this.anyErrors]], LAMBDA t :
    IF t.threw
    THEN LET node == parseCatch(this.lang, this.sourceCode, css, offsetLocation, t)
         IN  [arrays |-> heap \o <<node.comments, node.errors>>, this |-> r2.this,
              sheet |-> [node EXCEPT !.comments = Len(heap) + 1, !.errors = Len(heap) + 2]]
    ELSE LET node == parseRoot(this.lang, this.sourceCode, css, offsetLocation, t)
         IN  [arrays |-> Append(heap, node.errors), this |-> r2.this,
              sheet |-> [node EXCEPT !.comments = r2.this.commentContainer,
                                     !.errors = Len(heap) + 1]])))))

\* the document the instance works on, and the inputs of its calls: the whole
\* document as css, a grammar tree of at most one node
CallDoc == <<"a", "a", LF, "a">>
CallEnvs(l) == { env \in Envs(l, CallDoc) : Len(env.nodes) <= 1 }

InitCalls ==
  /\ \E l \in Langs :
       /\ callArrays = NewCSSParser(CallDoc, l).arrays
       /\ callThis = NewCSSParser(CallDoc, l).this
  /\ callSheets = << >>
  /\ IdleLoc
  /\ IdleParse
  /\ IdleRidc
  /\ IdleSel
  /\ IdleScss
  /\ IdleDecl
  /\ IdleCopy
  /\ IdleRead
  /\ IdleRule
  /\ IdleCfg
  /\ IdleRoll
  /\ IdleAdj
  /\ IdleRest
  /\ IdleNorm

ParseAgain ==
  /\ Len(callSheets) < MaxCalls
  /\ \E env \in CallEnvs(callThis.lang) :
       LET offsetLocation == [line |-> 1, column |-> 0]
           out == parseOn(callArrays, callThis, CallDoc, offsetLocation, env)
       IN  /\ callArrays' = out.arrays
           /\ callThis' = out.this
           /\ callSheets' = Append(callSheets, [node |-> out.sheet, env |-> env])
  /\ UNCHANGED <<locVars, parseVars, ridcVars, selVars, scssVars, declVars, copyVars, readVars, ruleVars, cfgVars, rollVars, adjVars, restVars, normVars>>

NextCalls == ParseAgain

SpecCalls == InitCalls /\ [][NextCalls]_vars

-----------------------------------------------------------------------------
(* rules/eslint-plugin-css-order.js: Program:exit on one style element.     *)
(* A line is a sequence of characters; styleArr is cssText.split(CR LF).    *)

MaxProps == 3

IndentUnit == 2

\* the configured order in use: display, flex
propertyGroups == << <<"d">>, <<"f">> >>

\* propertyGroups.findIndex(property => property === name)
findIndex(groups, name) ==
  IF \E k \in 1..Len(groups) : groups[k] = name
  THEN (CHOOSE k \in 1..Len(groups) : groups[k] = name /\ \A j \in 1..(k - 1) : groups[j] # name) - 1
  ELSE -1

endsWith(str, sub) == Len(sub) <= Len(str) /\ startsAt(str, sub, Len(str) - Len(sub))

\* ' '.repeat(n)
spaces(n) == [k \in 1..n |-> " "]

\* trimmed.split(':')[0].trim()
propertyName(trimmed) ==
  trim(IF includes(trimmed, <<":">>) THEN Slice(trimmed, 0, indexOf(trimmed, <<":">>)) ELSE trimmed)

\* the element of lineInfos for the line at index
lineInfo(line, index) ==
  LET trimmed == trim(line)
  IN  [index |-> index, text |-> line, trimmed |-> trimmed,
       indent |-> Len(line) - Len(trimStart(line)),
       isEmpty |-> trimmed = << >>,
       isComment |-> startsAt(trimmed, <<"/", "/">>, 0) \/ startsAt(trimmed, <<"/", "*">>, 0),
       isSelector |-> includes(trimmed, <<"{">>) /\ ~endsWith(trimmed, <<"}">>),
       isCloseBrace |-> trimmed = <<"}">> \/ startsAt(trimmed, <<"}">>, 0),
       isProperty |-> /\ includes(trimmed, <<":">>)
                      /\ ~includes(trimmed, <<"{">>)
                      /\ ~startsAt(trimmed, <<"/", "/">>, 0)]
lineInfosOf(lines) == [k \in 1..Len(lines) |-> lineInfo(lines[k], k - 1)]

\* stack[stack.length - 1] || 0
top(stack) == IF Len(stack) > 0 THEN stack[Len(stack)] ELSE 0
pop(stack) == IF Len(stack) > 0 THEN SubSeq(stack, 1, Len(stack) - 1) ELSE stack

\* the first forEach over lineInfos: the map correctIndents, from the k-th line on
RECURSIVE correctIndentsFrom(_, _, _, _)
correctIndentsFrom(infos, k, stack, map) ==
  IF k > Len(infos) THEN map
  ELSE IF infos[k].isSelector
  THEN correctIndentsFrom(infos, k + 1, Append(stack, top(stack) + IndentUnit),
                          (infos[k].index :> top(stack)) @@ map)
  ELSE IF infos[k].isCloseBrace
  THEN correctIndentsFrom(infos, k + 1, pop(stack), (infos[k].index :> top(pop(stack))) @@ map)
  ELSE correctIndentsFrom(infos, k + 1, stack, map)
correctIndentsOf(infos) == correctIndentsFrom(infos, 1, <<0>>, << >>)

\* correctIndents.get(index) || 0
correctIndentAt(map, index) == IF index \in DOMAIN map THEN map[index] ELSE 0

NoBlock == [open |-> FALSE]
newBlock(info, map) ==
  [open |-> TRUE, selectorIndex |-> info.index, selectorIndent |-> info.indent,
   correctSelectorIndent |-> correctIndentAt(map, info.index),
   blockIndent |-> correctIndentAt(map, info.index) + IndentUnit,
   properties |-> << >>, startIndex |-> info.index + 1]

\* the second forEach over lineInfos: propertyBlocks, from the k-th line on
RECURSIVE propertyBlocksFrom(_, _, _, _, _)
propertyBlocksFrom(infos, k, map, blocks, currentBlock) ==
  IF k > Len(infos) THEN blocks
  ELSE IF infos[k].isSelector
  THEN propertyBlocksFrom(infos, k + 1, map,
         IF currentBlock.open /\ Len(currentBlock.properties) > 0
         THEN Append(blocks, currentBlock) ELSE blocks,
         newBlock(infos[k], map))
  ELSE IF currentBlock.open /\ infos[k].isProperty
  THEN propertyBlocksFrom(infos, k + 1, map, blocks,
         [currentBlock EXCEPT !.properties = Append(@, infos[k])])
  ELSE IF infos[k].isCloseBrace /\ currentBlock.open
  THEN propertyBlocksFrom(infos, k + 1, map,
         IF Len(currentBlock.properties) > 0 THEN Append(blocks, currentBlock) ELSE blocks,
         NoBlock)
  ELSE propertyBlocksFrom(infos, k + 1, map, blocks, currentBlock)
propertyBlocksOf(infos) ==
  propertyBlocksFrom(infos, 1, correctIndentsOf(infos), << >>, NoBlock)

Err(index, msgId) == [index |-> index, msgId |-> msgId]

\* the concatenation of f(seq[k]) for the elements of seq, in order
RECURSIVE concat(_)
concat(seqs) == IF Len(seqs) = 0 THEN << >> ELSE Head(seqs) \o concat(Tail(seqs))
flatMap(seq, f(_)) == concat([k \in 1..Len(seq) |-> f(seq[k])])

\* the properties of a block that are not at its indent
propertyIndentErrors(block) ==
  flatMap(block.properties,
          LAMBDA prop : IF prop.indent # block.blockIndent
                        THEN <<Err(prop.index, "inconsistentIndent")>> ELSE << >>)

\* the selector and closing brace lines that are not at their indent
lineIndentErrors(infos, map) ==
  flatMap(infos,
          LAMBDA info :
            IF /\ ~(info.isEmpty \/ info.isComment)
               /\ (info.isSelector \/ info.isCloseBrace)
               /\ info.index \in DOMAIN map
               /\ info.indent # map[info.index]
            THEN <<Err(info.index, "inconsistentIndent")>> ELSE << >>)

\* the blank lines between two properties of a block that follow each other
emptyLineErrors(lines, block) ==
  flatMap([idx \in 1..(Len(block.properties) - 1) |-> idx],
          LAMBDA idx :
            flatMap([i \in 1..(block.properties[idx + 1].index - block.properties[idx].index - 1)
                       |-> block.properties[idx].index + i],
                    LAMBDA i : IF trim(lines[i + 1]) = << >>
                               THEN <<Err(i, "emptyLine")>> ELSE << >>))

\* the two loops over sorted, from (i, j) on, with the reports they push
RECURSIVE sortLoops(_, _, _, _)
sortLoops(sorted, errs, i, j) ==
  IF i >= Len(sorted) THEN [sorted |-> sorted, errs |-> errs]
  ELSE IF j >= Len(sorted) - i THEN sortLoops(sorted, errs, i + 1, 1)
  ELSE LET curIndex == findIndex(propertyGroups, propertyName(sorted[j + 1].trimmed))
           lastIndex == findIndex(propertyGroups, propertyName(sorted[j].trimmed))
       IN  IF curIndex # -1 /\ lastIndex # -1 /\ curIndex < lastIndex
           THEN sortLoops([sorted EXCEPT ![j] = sorted[j + 1], ![j + 1] = sorted[j]],
                          Append(errs, Err(sorted[j + 1].index, "cssSort")), i, j + 1)
           ELSE sortLoops(sorted, errs, i, j + 1)

\* the sort that reports every property of the block
sortBlock_alwaysReports(block) ==
  [sorted |-> sortLoops(block.properties, << >>, 0, 1).sorted,
   errs |-> [k \in 1..Len(block.properties) |-> Err(block.properties[k].index, "cssSort")]]

\* the body of propertyBlocks.map: the sorted properties of a block and the
\* reports pushed on the way
sortBlock(block) == sortLoops(block.properties, << >>, 0, 1)

\* lodash.uniqBy(errArr, item => index-msgId)
RECURSIVE uniqBy(_)
uniqBy(errs) ==
  IF Len(errs) = 0 THEN << >>
  ELSE LET init == uniqBy(SubSeq(errs, 1, Len(errs) - 1))
       IN  IF \E k \in 1..Len(init) : init[k] = errs[Len(errs)] THEN init
           ELSE Append(init, errs[Len(errs)])

\* Program:exit up to the reports: uniqueErrArr and sortedBlocks
programExit(lines) ==
  LET infos == lineInfosOf(lines)
      map == correctIndentsOf(infos)
      blocks == propertyBlocksOf(infos)
      sortedOf == [b \in 1..Len(blocks) |-> sortBlock(blocks[b])]
  IN  [called |-> TRUE,
       errs |-> uniqBy(flatMap(blocks, LAMBDA block : propertyIndentErrors(block))
                       \o lineIndentErrors(infos, map)
                       \o flatMap(blocks, LAMBDA block : emptyLineErrors(lines, block))
                       \o flatMap(sortedOf, LAMBDA s : s.errs)),
       sortedBlocks |-> [b \in 1..Len(blocks) |->
                           blocks[b] @@ [sortedProperties |-> sortedOf[b].sorted]]]

\* the styleArr.forEach of fix, from the k-th line on
RECURSIVE fixFrom(_, _, _, _, _)
fixFrom(infos, sortedBlocks, k, stack, result) ==
  IF k > Len(infos) THEN result
  ELSE
    LET info == infos[k]
        processed == \E b \in 1..Len(sortedBlocks) :
                       \E p \in 1..Len(sortedBlocks[b].properties) :
                         sortedBlocks[b].properties[p].index = info.index
        ofSelector == { b \in 1..Len(sortedBlocks) : sortedBlocks[b].selectorIndex = info.index }
    IN  IF processed THEN fixFrom(infos, sortedBlocks, k + 1, stack, result)
        ELSE IF info.isSelector
        THEN fixFrom(infos, sortedBlocks, k + 1, Append(stack, top(stack) + IndentUnit),
               Append(result, spaces(top(stack)) \o info.trimmed)
               \o (IF ofSelector = {} THEN << >>
                   ELSE LET block == sortedBlocks[CHOOSE b \in ofSelector :
                                                    \A c \in ofSelector : c <= b]
                        IN  [p \in 1..Len(block.sortedProperties) |->
                               spaces(block.blockIndent) \o block.sortedProperties[p].trimmed]))
        ELSE IF info.isCloseBrace
        THEN fixFrom(infos, sortedBlocks, k + 1, pop(stack),
               Append(result, spaces(top(pop(stack))) \o info.trimmed))
        ELSE fixFrom(infos, sortedBlocks, k + 1, stack, Append(result, info.text))

\* result.shift() and result.pop() while the first and the last line are blank
RECURSIVE dropBlankEnds(_)
dropBlankEnds(result) ==
  IF Len(result) > 0 /\ trim(result[1]) = << >> THEN dropBlankEnds(Tail(result))
  ELSE IF Len(result) > 0 /\ trim(result[Len(result)]) = << >>
  THEN dropBlankEnds(SubSeq(result, 1, Len(result) - 1))
  ELSE result

\* fix: the lines of finalResult, which begins and ends with CR LF
fix(lines, sortedBlocks) ==
  LET result == dropBlankEnds(fixFrom(lineInfosOf(lines), sortedBlocks, 1, <<0>>, << >>))
  IN  IF Len(result) > 0 THEN << << >> >> \o result \o << << >> >> ELSE << >>

\* Styles: a rule whose body holds up to MaxProps declarations of display, flex
\* and an unlisted property, one of them possibly off its indent, a blank line
\* possibly before one of them, then possibly a nested rule; the selector is
\* possibly off its indent.
PropNames == {"d", "f", "x"}
declLine(name, indent) == spaces(indent) \o <<name, ":", "1", ";">>
NestedRules ==
  { << >>,
    <<spaces(2) \o <<"b", "{">>, declLine("d", 4), declLine("f", 4), spaces(2) \o <<"}">> >>,
    <<spaces(2) \o <<"b", "{">>, declLine("f", 4), declLine("d", 4), spaces(2) \o <<"}">> >> }
styleLines(names, off, blank, nested, selectorIndent) ==
  << << >>, spaces(selectorIndent) \o <<"a", "{">> >>
  \o flatMap([k \in 1..Len(names) |-> k],
             LAMBDA k : (IF blank = k THEN << << >> >> ELSE << >>)
                        \o <<declLine(names[k], IF off = k THEN 3 ELSE 2)>>)
  \o nested \o << <<"}">>, << >> >>
Styles ==
  { styleLines(names, off, blank, nested, selectorIndent) :
      names \in SeqsUpTo(PropNames, MaxProps), off \in 0..MaxProps, blank \in 0..MaxProps,
      nested \in NestedRules, selectorIndent \in {0, 1} }

InitRule ==
  /\ styleArr \in Styles
  /\ ruleReports = NotCalled
  /\ ruleFixed = NotCalled
  /\ IdleLoc
  /\ IdleParse
  /\ IdleRidc
  /\ IdleSel
  /\ IdleScss
  /\ IdleDecl
  /\ IdleCopy
  /\ IdleRead
  /\ IdleCalls
  /\ IdleCfg
  /\ IdleRoll
  /\ IdleAdj
  /\ IdleRest
  /\ IdleNorm

\* Program:exit: context.report for each element of uniqueErrArr
ProgramExit ==
  /\ ~ruleReports.called
  /\ ruleReports' = programExit(styleArr)
  /\ UNCHANGED <<styleArr, ruleFixed, locVars, parseVars, ridcVars, selVars, scssVars,
                 declVars, copyVars, readVars, callVars, cfgVars, rollVars, adjVars, restVars, normVars>>

\* the fix of a report is applied
Fix ==
  /\ ruleReports.called
  /\ Len(ruleReports.errs) > 0
  /\ ~ruleFixed.called
  /\ ruleFixed' = [called |-> TRUE, lines |-> fix(styleArr, ruleReports.sortedBlocks)]
  /\ UNCHANGED <<styleArr, ruleReports, locVars, parseVars, ridcVars, selVars, scssVars,
                 declVars, copyVars, readVars, callVars, cfgVars, rollVars, adjVars, restVars, normVars>>

NextRule == ProgramExit \/ Fix

SpecRule == InitRule /\ [][NextRule]_vars

-----------------------------------------------------------------------------
(* rules/eslint-plugin-css-order.js: loadUserConfigSync and propertyGroups. *)
(* The text of the file is a sequence of JSON tokens; "pg:" is the key      *)
(* "propertyGroups" with its colon.                                         *)

MaxNames == 2

ConfigNames == {"d", "f", "x"}

\* the default export of properties.js
DefaultOrder == JsArray(<<JsString("content"), JsString("position"), JsString("top")>>)

\* JSON.parse of the text of an array of strings, a string or null
parseFlat(t) ==
  IF t = <<"null">> THEN [ok |-> TRUE, value |-> JsNull]
  ELSE IF Len(t) = 1 /\ t[1] \in ConfigNames THEN [ok |-> TRUE, value |-> JsString(t[1])]
  ELSE IF /\ Len(t) >= 2 /\ t[1] = "[" /\ t[Len(t)] = "]"
          /\ (Len(t) = 2 \/ Len(t) % 2 = 1)
          /\ \A i \in 2..(Len(t) - 1) : IF i % 2 = 0 THEN t[i] \in ConfigNames ELSE t[i] = ","
  THEN [ok |-> TRUE,
        value |-> JsArray([k \in 1..((Len(t) - 1) \div 2) |-> JsString(t[2 * k])])]
  ELSE [ok |-> FALSE, value |-> JsUndefined]

\* JSON.parse(content): ok is FALSE when it throws a SyntaxError
JSON_parse(t) ==
  IF Len(t) >= 2 /\ t[1] = "{" /\ t[Len(t)] = "}"
  THEN IF Len(t) = 2 THEN [ok |-> TRUE, value |-> JsObject(NoProps)]
       ELSE IF t[2] = "pg:" /\ parseFlat(SubSeq(t, 3, Len(t) - 1)).ok
       THEN [ok |-> TRUE,
             value |-> JsObject([propertyGroups |-> parseFlat(SubSeq(t, 3, Len(t) - 1)).value])]
       ELSE [ok |-> FALSE, value |-> JsUndefined]
  ELSE parseFlat(t)

\* loadUserConfigSync with no try around the read and the parse
loadUserConfigSync_noTry(file) ==
  IF file.exists
  THEN IF file.readable /\ JSON_parse(file.content).ok
       THEN [raised |-> FALSE, logged |-> FALSE, value |-> JSON_parse(file.content).value]
       ELSE [raised |-> TRUE, logged |-> FALSE, value |-> JsUndefined]
  ELSE [raised |-> FALSE, logged |-> FALSE, value |-> DefaultOrder]

\* loadUserConfigSync: the file's JSON value, the default when the file is absent
\* or reading or parsing it throws
loadUserConfigSync(file) ==
  IF file.exists /\ file.readable /\ JSON_parse(file.content).ok
  THEN [raised |-> FALSE, logged |-> FALSE, value |-> JSON_parse(file.content).value]
  ELSE [raised |-> FALSE, logged |-> file.exists, value |-> DefaultOrder]

\* Array.isArray(userConfig) ? userConfig : userConfig.propertyGroups || userConfig;
\* reading a field of null throws a TypeError
loadedPropertyGroups(userConfig) ==
  IF userConfig.js = "array" THEN [raised |-> FALSE, propertyGroups |-> userConfig]
  ELSE IF nullish(userConfig) THEN [raised |-> TRUE, propertyGroups |-> JsUndefined]
  ELSE IF userConfig.js = "object" /\ truthy(member(userConfig.v, "propertyGroups"))
  THEN [raised |-> FALSE, propertyGroups |-> userConfig.v.propertyGroups]
  ELSE [raised |-> FALSE, propertyGroups |-> userConfig]

\* the module's top level: userConfig, then propertyGroups
loadModule(file) ==
  LET userConfig == loadUserConfigSync(file)
  IN  IF userConfig.raised
      THEN [called |-> TRUE, raised |-> TRUE, logged |-> userConfig.logged,
            propertyGroups |-> JsUndefined]
      ELSE [called |-> TRUE, raised |-> loadedPropertyGroups(userConfig.value).raised,
            logged |-> userConfig.logged,
            propertyGroups |-> loadedPropertyGroups(userConfig.value).propertyGroups]

\* the JSON text of an array of names
RECURSIVE arrayTokens(_)
arrayTokens(names) ==
  IF Len(names) = 0 THEN << >>
  ELSE IF Len(names) = 1 THEN <<names[1]>>
  ELSE <<names[1], ",">> \o arrayTokens(Tail(names))
arrayText(names) == <<"[">> \o arrayTokens(names) \o <<"]">>

\* Files: texts that parse (an array, an object with or without propertyGroups, a
\* string, null), the same with a token lost or added, and no file or a file
\* that cannot be read
GoodTexts ==
  { arrayText(names) : names \in SeqsUpTo(ConfigNames, MaxNames) }
  \cup { <<"{", "pg:">> \o arrayText(names) \o <<"}">> : names \in SeqsUpTo(ConfigNames, MaxNames) }
  \cup { <<"{", "}">>, <<"{", "pg:", "null", "}">>, <<"null">>, <<"d">> }
ConfigTexts ==
  GoodTexts
  \cup { SubSeq(t, 1, Len(t) - 1) : t \in GoodTexts }
  \cup { Tail(t) : t \in GoodTexts }
  \cup { t \o <<",">> : t \in GoodTexts }
ConfigFiles ==
  { [exists |-> FALSE, readable |-> FALSE, content |-> << >>] }
  \cup { [exists |-> TRUE, readable |-> r, content |-> t] : r \in BOOLEAN, t \in ConfigTexts }

InitCfg ==
  /\ cfgFile \in ConfigFiles
  /\ cfgLoaded = NotCalled
  /\ IdleLoc
  /\ IdleParse
  /\ IdleRidc
  /\ IdleSel
  /\ IdleScss
  /\ IdleDecl
  /\ IdleCopy
  /\ IdleRead
  /\ IdleCalls
  /\ IdleRule
  /\ IdleRoll
  /\ IdleAdj
  /\ IdleRest
  /\ IdleNorm

\* the rule module is loaded
LoadModule ==
  /\ ~cfgLoaded.called
  /\ cfgLoaded' = loadModule(cfgFile)
  /\ UNCHANGED <<cfgFile, locVars, parseVars, ridcVars, selVars, scssVars, declVars, copyVars,
                 readVars, callVars, ruleVars, rollVars, adjVars, restVars, normVars>>

NextCfg == LoadModule

SpecCfg == InitCfg /\ [][NextCfg]_vars

-----------------------------------------------------------------------------
(* replaceSelector with randomStr() as a draw: the loop body step by step.  *)
(* Math.random can give any string of N characters, also one given before.  *)

MaxRandoms == 2
MaxDraws == 4

\* the strings randomStr() gives in the model
RandomStrs == { randomStr(k) : k \in 1..MaxRandoms }

\* array.includes(item)
arrayIncludes(array, item) == \E k \in 1..Len(array) : array[k] = item

\* cssSelector.includes(random) || selector.includes(random): cssSelector is an
\* array, selector a string
collides(pieces, selector, random) ==
  arrayIncludes(pieces, random) \/ includes(selector, random)

\* selector.slice(start, res.index) for the k-th yield
plainBefore(selector, yields, k) ==
  Slice(selector,
        IF k = 1 THEN 0 ELSE yields[k - 1].result.index + yields[k - 1].result.length,
        yields[k].result.index)
matchedText(selector, y) == Slice(selector, y.result.index, y.result.index + y.result.length)

\* the pieces the selectors of the model are put together from: a class, an
\* interpolation, an interpolation as long as its placeholder, an inline comment
\* with its line end, a block comment and two strings that hold what looks like
\* an interpolation or an inline comment
MaxPieces == 2
LongInterpolation == <<"#", "{", "$">> \o [i \in 1..(N - 2) |-> "b"] \o <<"}">>
RollAtoms ==
  { <<".", "a">>,
    <<"#", "{", "$", "b", "}">>,
    LongInterpolation,
    <<"/", "/", "c", LF>>,
    <<"/", "*", "#", "{", "$", "b", "}", "*", "/">>,
    <<Apostrophe, "/", "/", "c", Apostrophe>>,
    <<"\"", "#", "{", "$", "b", "}", "\"">> }

\* the selectors of at most MaxPieces pieces, and four more: an inline comment
\* that ends with the text, a class named like a random string before one and
\* before two interpolations, two interpolations around a class before an
\* inline comment
RollSelectors ==
  { concat(ps) : ps \in SeqsUpTo(RollAtoms, MaxPieces) }
  \cup
  { <<".", "a", "#", "{", "$", "b", "}", "/", "/", "c">>,
    <<".">> \o randomStr(1) \o <<"#", "{", "$", "b", "}">>,
    <<".">> \o randomStr(1) \o <<"#", "{", "$", "b", "}", "#", "{", "$", "b", "}">>,
    <<"#", "{", "$", "a", "}", ".", "a", "#", "{", "$", "b", "}", "/", "/", "c">> }

\* the names of the patterns whose matches are copied through
copiedThrough_onlyStrings(name) == name \in {"dstr", "sstr"}
copiedThrough(name) == name \in {"block", "dstr", "sstr"}

\* the local start of replaceSelector after k yields
loopStart(yields, k) ==
  IF k = 0 THEN 0 ELSE yields[k].result.index + yields[k].result.length

InitRoll ==
  /\ rollSelector \in RollSelectors
  /\ rollYields = << >>
  /\ rollK = 0
  /\ rollPieces = << >>
  /\ rollInfos = << >>
  /\ rollRandom = << >>
  /\ rollPc = "next"
  /\ rollDrawn = 0
  /\ rollPatterns = [k \in 1..Len(PatternNames) |-> NewPattern(PatternNames[k])]
  /\ rollStart = 0
  /\ rollRemap = NewRemapIndexContext
  /\ rollOut = NotCalled
  /\ IdleLoc
  /\ IdleParse
  /\ IdleRidc
  /\ IdleSel
  /\ IdleScss
  /\ IdleDecl
  /\ IdleCopy
  /\ IdleRead
  /\ IdleCalls
  /\ IdleRule
  /\ IdleCfg
  /\ IdleAdj
  /\ IdleRest
  /\ IdleNorm

\* one turn of the while loop of definePatternsSearchGenerator: the generator
\* yields the earliest result of its patterns, or returns; resumed is where the
\* caller goes on after a yield
generatorNext(resumed) ==
  /\ rollPc = "next"
  /\ LET r == execPatterns(rollPatterns, 1, rollSelector, rollStart, NoMatch, "")
     IN  /\ rollPatterns' = r.patterns
         /\ IF r.result = NoMatch
            THEN /\ rollPc' = "after"
                 /\ UNCHANGED <<rollYields, rollStart, adjVars, restVars, normVars>>
            ELSE /\ rollYields' = Append(rollYields, [name |-> r.name, result |-> r.result])
                 /\ rollStart' = r.result.index + r.result.length
                 /\ rollPc' = resumed
  /\ UNCHANGED <<rollSelector, rollK, rollPieces, rollInfos, rollRandom, rollDrawn,
                 rollRemap, rollOut,
                 locVars, parseVars, ridcVars, selVars, scssVars, declVars, copyVars,
                 readVars, callVars, ruleVars, cfgVars, adjVars, restVars, normVars>>

\* the for loop of replaceSelector asks the generator for its next yield
Yield == generatorNext("body")

\* a yield of a block comment or a string: the plain text and the match are pushed
PushLiteral ==
  /\ rollPc = "body"
  /\ copiedThrough(rollYields[rollK + 1].name)
  /\ LET plain == plainBefore(rollSelector, rollYields, rollK + 1)
         matched == matchedText(rollSelector, rollYields[rollK + 1])
     IN  /\ rollPieces' = rollPieces \o <<plain, matched>>
         /\ rollRemap' = applyEq(applyEq(rollRemap, Len(plain)), Len(matched))
  /\ rollK' = rollK + 1
  /\ rollPc' = "next"
  /\ UNCHANGED <<rollSelector, rollYields, rollInfos, rollRandom, rollDrawn,
                 rollPatterns, rollStart, rollOut,
                 locVars, parseVars, ridcVars, selVars, scssVars, declVars, copyVars,
                 readVars, callVars, ruleVars, cfgVars, adjVars, restVars, normVars>>

\* let random = randomStr()
Draw ==
  /\ rollPc = "body"
  /\ ~copiedThrough(rollYields[rollK + 1].name)
  /\ rollDrawn < MaxDraws
  /\ rollRandom' \in RandomStrs
  /\ rollDrawn' = rollDrawn + 1
  /\ rollPc' = "while"
  /\ UNCHANGED <<rollSelector, rollYields, rollK, rollPieces, rollInfos,
                 rollPatterns, rollStart, rollRemap, rollOut,
                 locVars, parseVars, ridcVars, selVars, scssVars, declVars, copyVars,
                 readVars, callVars, ruleVars, cfgVars, adjVars, restVars, normVars>>

\* the body of the while: random = randomStr()
ReRoll ==
  /\ rollPc = "while"
  /\ collides(rollPieces, rollSelector, rollRandom)
  /\ rollDrawn < MaxDraws
  /\ rollRandom' \in RandomStrs
  /\ rollDrawn' = rollDrawn + 1
  /\ UNCHANGED <<rollSelector, rollYields, rollK, rollPieces, rollInfos, rollPc,
                 rollPatterns, rollStart, rollRemap, rollOut,
                 locVars, parseVars, ridcVars, selVars, scssVars, declVars, copyVars,
                 readVars, callVars, ruleVars, cfgVars, adjVars, restVars, normVars>>

\* after the while: the plain text and the replacement are pushed on cssSelector,
\* the entry on replaces or comments, and the remap context is told of the three
\* lengths
PushReplace ==
  /\ rollPc = "while"
  /\ ~collides(rollPieces, rollSelector, rollRandom)
  /\ LET y == rollYields[rollK + 1]
         plain == plainBefore(rollSelector, rollYields, rollK + 1)
         matched == matchedText(rollSelector, y)
         replace == genFunction(y.name, rollRandom)
     IN  /\ rollPieces' = rollPieces \o <<plain, replace>>
         /\ rollInfos' = Append(rollInfos,
                                [name |-> y.name,
                                 start |-> y.result.index,
                                 original |-> matched,
                                 random |-> rollRandom,
                                 replace |-> replace,
                                 before |-> rollPieces])
         /\ rollRemap' = applyDel(applyIns(applyEq(rollRemap, Len(plain)), Len(replace)),
                                  Len(matched))
  /\ rollK' = rollK + 1
  /\ rollPc' = "next"
  /\ UNCHANGED <<rollSelector, rollYields, rollRandom, rollDrawn,
                 rollPatterns, rollStart, rollOut,
                 locVars, parseVars, ridcVars, selVars, scssVars, declVars, copyVars,
                 readVars, callVars, ruleVars, cfgVars, adjVars, restVars, normVars>>

\* after the for loop: the rest of the selector is pushed, the remap context
\* flushed and the ReplaceSelectorContext returned
Return ==
  /\ rollPc = "after"
  /\ LET plain == Slice(rollSelector, loopStart(rollYields, rollK), Len(rollSelector))
     IN  /\ rollPieces' = Append(rollPieces, plain)
         /\ rollRemap' = flush(applyEq(rollRemap, Len(plain)))
         /\ rollOut' = [called |-> TRUE, cssSelector |-> concat(Append(rollPieces, plain))]
  /\ rollPc' = "done"
  /\ UNCHANGED <<rollSelector, rollYields, rollK, rollInfos, rollRandom, rollDrawn,
                 rollPatterns, rollStart,
                 locVars, parseVars, ridcVars, selVars, scssVars, declVars, copyVars,
                 readVars, callVars, ruleVars, cfgVars, adjVars, restVars, normVars>>

NextRoll == Yield \/ PushLiteral \/ Draw \/ ReRoll \/ PushReplace \/ Return

SpecRoll == InitRoll /\ [][NextRoll]_vars

-----------------------------------------------------------------------------
(* definePatternsSearchGenerator alone, on every text over the characters of *)
(* block comments, inline comments and strings                              *)

MaxText == 6
SearchChars == {"/", "*", Apostrophe, "\"", LF}
SearchTexts == SeqsUpTo(SearchChars, MaxText)

InitSearch ==
  /\ rollSelector \in SearchTexts
  /\ rollYields = << >>
  /\ rollK = 0
  /\ rollPieces = << >>
  /\ rollInfos = << >>
  /\ rollRandom = << >>
  /\ rollPc = "next"
  /\ rollDrawn = 0
  /\ rollPatterns = [k \in 1..Len(PatternNames) |-> NewPattern(PatternNames[k])]
  /\ rollStart = 0
  /\ rollRemap = Null
  /\ rollOut = NotCalled
  /\ IdleLoc
  /\ IdleParse
  /\ IdleRidc
  /\ IdleSel
  /\ IdleScss
  /\ IdleDecl
  /\ IdleCopy
  /\ IdleRead
  /\ IdleCalls
  /\ IdleRule
  /\ IdleCfg
  /\ IdleAdj
  /\ IdleRest
  /\ IdleNorm

\* a caller that only takes the next yield
Pull == generatorNext("next")

NextSearch == Pull

SpecSearch == InitSearch /\ [][NextSearch]_vars

-----------------------------------------------------------------------------
(* convertCombinatorNode and convertStringNode on a node of a selector: the *)
(* rule, the selector and, for a selector inside pseudos, the pseudos and    *)
(* selectors between them are made already, each within the one around it.  *)

\* bound: the number of pseudos around the selector of the node
MaxNest == 1
\* bound: the length of the node's value
MaxValue == 3

AdjCodes == { <<"a", "a", "a", "a", "a">>, <<"a", "a", LF, "a", "a">> }

\* the ancestor at depth k below the rule: a selector at odd depth, a pseudo at
\* even depth; each is the only child of the one above
ancestorId(k) == [i \in 1..k |-> 1]
ancestorNode(code, k, end) ==
  AstNode(ancestorId(k),
          CASE k = 0 -> "VCSSStyleRule"
            [] k % 2 = 1 -> "VCSSSelector"
            [] OTHER -> "VCSSSelectorPseudo",
          << >>,
          [start |-> getLocFromIndex(code, newLineStartIndices(code), 0),
           end |-> getLocFromIndex(code, newLineStartIndices(code), end)],
          0, end, IF k = 0 THEN NoId ELSE ancestorId(k - 1))

\* ends[k + 1] is the end of the ancestor at depth k
ancestorStore(code, ends) ==
  [id \in {ancestorId(k) : k \in 0..(Len(ends) - 1)} |-> ancestorNode(code, Len(id), ends[Len(id) + 1])]

\* convertCombinatorNode(node, loc, start, end, parent) and
\* convertStringNode(node, loc, start, end, parent)
convertValueNode(sc, store, type, node, loc, start, end, parent) ==
  LET id == parent \o <<1>>
      astNode == AstNode(id, type, node.value, loc, start, end, parent)
  IN  [store |-> adjustEndLocation(AddNode(store, astNode), id, start + Len(astNode.value), sc),
       id |-> id]

InitAdj ==
  /\ \E code \in AdjCodes, nest \in 0..MaxNest :
       \E ends \in [1..(2 * nest + 2) -> 0..Len(code)] :
         \E start \in 0..Len(code), end \in 0..Len(code), length \in 0..MaxValue :
           \* the grammar gives nested ranges; the end it gives for the node may
           \* differ from the end of the node's text
           /\ \A k \in 1..(Len(ends) - 1) : ends[k] >= ends[k + 1]
           /\ start <= end
           /\ end <= ends[Len(ends)]
           /\ start + length <= Len(code)
           /\ adjIn = [code |-> code,
                       sc |-> [code |-> code, starts |-> newLineStartIndices(code),
                               scss |-> FALSE],
                       store |-> ancestorStore(code, ends),
                       node |-> [value |-> [i \in 1..length |-> ">"]],
                       loc |-> [start |-> getLocFromIndex(code, newLineStartIndices(code), start),
                                end |-> getLocFromIndex(code, newLineStartIndices(code), end)],
                       start |-> start,
                       end |-> end,
                       parent |-> ancestorId(Len(ends) - 1)]
  /\ adjOut = NotCalled
  /\ IdleLoc
  /\ IdleParse
  /\ IdleRidc
  /\ IdleSel
  /\ IdleScss
  /\ IdleDecl
  /\ IdleCopy
  /\ IdleRead
  /\ IdleCalls
  /\ IdleRule
  /\ IdleCfg
  /\ IdleRoll
  /\ IdleRest
  /\ IdleNorm

ConvertCombinatorNode ==
  /\ adjOut = NotCalled
  /\ adjOut' = [called |-> TRUE] @@
               convertValueNode(adjIn.sc, adjIn.store, "VCSSSelectorCombinator", adjIn.node,
                                adjIn.loc, adjIn.start, adjIn.end, adjIn.parent)
  /\ UNCHANGED <<adjIn, locVars, parseVars, ridcVars, selVars, scssVars, declVars, copyVars,
                 readVars, callVars, ruleVars, cfgVars, rollVars, restVars, normVars>>

ConvertStringNode ==
  /\ adjOut = NotCalled
  /\ adjOut' = [called |-> TRUE] @@
               convertValueNode(adjIn.sc, adjIn.store, "VCSSUnknownSelector", adjIn.node,
                                adjIn.loc, adjIn.start, adjIn.end, adjIn.parent)
  /\ UNCHANGED <<adjIn, locVars, parseVars, ridcVars, selVars, scssVars, declVars, copyVars,
                 readVars, callVars, ruleVars, cfgVars, rollVars, restVars, normVars>>

NextAdj == ConvertCombinatorNode \/ ConvertStringNode

SpecAdj == InitAdj /\ [][NextAdj]_vars

-----------------------------------------------------------------------------
(* restoreReplacedSelector step by step (SpecRestore): the walk over the    *)
(* grammar tree of a substituted selector, one action per loop iteration.   *)
(* A node is named by its path from the root.                               *)

\* `.a`, `.a#{$b}`, and `.a#{$b}#{$b}`: two interpolations in one word
RestCompounds ==
  { <<".", "a">>,
    <<".", "a", "#", "{", "$", "b", "}">>,
    <<".", "a", "#", "{", "$", "b", "}", "#", "{", "$", "b", "}">> }

\* white space, white space with an inline comment, an inline comment that
\* touches the compound selector before it, a block comment
RestSeparators ==
  { <<" ">>,
    <<" ", "/", "/", " ", "c", LF>>,
    <<"/", "/", "c", LF>>,
    <<"/", "*", "c", "*", "/">> }

\* the selector texts with n separators
RECURSIVE RestSelectors(_)
RestSelectors(n) ==
  IF n = 0 THEN RestCompounds
  ELSE {s \o sep \o c : s \in RestSelectors(n - 1), sep \in RestSeparators, c \in RestCompounds}

RECURSIVE nodeAt(_, _)
nodeAt(node, path) ==
  IF path = << >> THEN node ELSE nodeAt(node.nodes[Head(path)], Tail(path))

\* node.nodes[index] = ... along the path
RECURSIVE putAt(_, _, _)
putAt(node, path, new) ==
  IF path = << >> THEN new
  ELSE [node EXCEPT !.nodes[Head(path)] = putAt(@, Tail(path), new)]

\* the paths of the children of the node at path, in the order of node.nodes
childPaths(tree, path) ==
  [k \in 1..Len(nodeAt(tree, path).nodes) |-> Append(path, k)]

InitRestore ==
  /\ restIn = << >>
  /\ restCtx = Null
  /\ restTree = Null
  /\ restTodo = << >>
  /\ restPc = "call"
  /\ restCssText = << >>
  /\ restReplaces = << >>
  /\ restComments = << >>
  /\ restVisited = << >>
  /\ restLog = << >>
  /\ IdleLoc
  /\ IdleParse
  /\ IdleRidc
  /\ IdleSel
  /\ IdleScss
  /\ IdleDecl
  /\ IdleCopy
  /\ IdleRead
  /\ IdleCalls
  /\ IdleRule
  /\ IdleCfg
  /\ IdleRoll
  /\ IdleAdj
  /\ IdleNorm

\* parseInternal calls restoreReplacedSelector with the tree of the
\* substituted text when the context has a substitution
RestoreCall ==
  /\ restPc = "call"
  /\ \E n \in 0..MaxSeps, trail \in ScssTrails :
       \E raw \in RestSelectors(n) : restIn' = raw \o trail
  /\ restCtx' = replaceSelector(restIn')
  /\ hasReplace(restCtx')
  /\ restTree' = astSync(restCtx'.cssSelector)
  /\ restTodo' = << << >> >>
  /\ restPc' = "source"
  /\ restReplaces' = restCtx'.replaces
  /\ restComments' = restCtx'.comments
  /\ UNCHANGED <<restCssText, restVisited, restLog, locVars, parseVars, ridcVars, selVars, scssVars, declVars, copyVars, readVars, callVars, ruleVars, cfgVars, rollVars, adjVars, normVars>>

\* the call for the next node: node.source and cssText
RestoreSource ==
  /\ restPc = "source"
  /\ LET s == restoreSource(nodeAt(restTree, Head(restTodo)), restCtx)
     IN  /\ restTree' = putAt(restTree, Head(restTodo), s.node)
         /\ restCssText' = s.cssText
  /\ restVisited' = Append(restVisited, Head(restTodo))
  /\ restPc' = "replaceds"
  /\ UNCHANGED <<restIn, restCtx, restTodo, restReplaces, restComments, restLog, locVars, parseVars, ridcVars, selVars, scssVars, declVars, copyVars, readVars, callVars, ruleVars, cfgVars, rollVars, adjVars, normVars>>

\* an iteration of the first while loop: restoreReplaceds returned a node
RestoreReplaceds ==
  /\ restPc = "replaceds"
  /\ LET r == restoreReplaceds(nodeAt(restTree, Head(restTodo)), restReplaces, restCssText)
     IN  /\ r.found
         /\ restTree' = putAt(restTree, Head(restTodo), r.node)
         /\ restReplaces' = r.infos
  /\ restLog' = Append(restLog, Head(restTodo))
  /\ UNCHANGED <<restIn, restCtx, restTodo, restPc, restCssText, restComments, restVisited, locVars, parseVars, ridcVars, selVars, scssVars, declVars, copyVars, readVars, callVars, ruleVars, cfgVars, rollVars, adjVars, normVars>>

\* restoreReplaceds returned null: the first while loop ends
ReplacedsEnd ==
  /\ restPc = "replaceds"
  /\ ~restoreReplaceds(nodeAt(restTree, Head(restTodo)), restReplaces, restCssText).found
  /\ restPc' = "comments"
  /\ UNCHANGED <<restIn, restCtx, restTree, restTodo, restCssText, restReplaces, restComments, restVisited, restLog, locVars, parseVars, ridcVars, selVars, scssVars, declVars, copyVars, readVars, callVars, ruleVars, cfgVars, rollVars, adjVars, normVars>>

\* an iteration of the second while loop: restoreComments returned true
RestoreComments ==
  /\ restPc = "comments"
  /\ LET r == restoreComments(nodeAt(restTree, Head(restTodo)), restComments, restCssText)
     IN  /\ r.found
         /\ restTree' = putAt(restTree, Head(restTodo), r.node)
         /\ restComments' = r.infos
  /\ restLog' = Append(restLog, Head(restTodo))
  /\ UNCHANGED <<restIn, restCtx, restTodo, restPc, restCssText, restReplaces, restVisited, locVars, parseVars, ridcVars, selVars, scssVars, declVars, copyVars, readVars, callVars, ruleVars, cfgVars, rollVars, adjVars, normVars>>

\* restoreComments returned false: the second while loop ends, and the calls
\* for the children of the node come next, before what was still to visit
CommentsEnd ==
  /\ restPc = "comments"
  /\ ~restoreComments(nodeAt(restTree, Head(restTodo)), restComments, restCssText).found
  /\ restTodo' = childPaths(restTree, Head(restTodo)) \o Tail(restTodo)
  /\ restPc' = IF restTodo' = << >> THEN "done" ELSE "source"
  /\ UNCHANGED <<restIn, restCtx, restTree, restCssText, restReplaces, restComments, restVisited, restLog, locVars, parseVars, ridcVars, selVars, scssVars, declVars, copyVars, readVars, callVars, ruleVars, cfgVars, rollVars, adjVars, normVars>>

NextRestore ==
  RestoreCall \/ RestoreSource \/ RestoreReplaceds \/ ReplacedsEnd \/ RestoreComments \/ CommentsEnd

SpecRestore == InitRestore /\ [][NextRestore]_vars

-----------------------------------------------------------------------------
(* normalizePseudoParams on the converted children of a pseudo (SpecNorm).  *)
(* The selector grammar is not part of the repository: the children of a    *)
(* pseudo are drawn as every list of converted selectors and of nodes that  *)
(* are no selectors, each made with the pseudo as its parent.               *)

\* bound: the converted children of the pseudo
MaxArgs == 4

ArgKinds == {"VCSSSelector", "VCSSClassSelector", "VCSSSelectorCombinator"}

PseudoId == <<1>>

\* the k-th converted child: one character of the line, the pseudo its parent
argNode(type, k) ==
  AstNode(Append(PseudoId, k), type,
          IF type = "VCSSSelector" THEN << >> ELSE <<"a">>,
          [start |-> [line |-> 1, column |-> k], end |-> [line |-> 1, column |-> k + 1]],
          k, k + 1, PseudoId)

InitNorm ==
  /\ \E types \in SeqsUpTo(ArgKinds, MaxArgs) :
       /\ types # << >>
       /\ normIn =
            [store |-> AddNodes(
                         PseudoId :> AstNode(PseudoId, "VCSSSelectorPseudo", <<":", "i", "s">>,
                                             [start |-> [line |-> 1, column |-> 0],
                                              end |-> [line |-> 1, column |-> Len(types) + 2]],
                                             0, Len(types) + 2, RuleId),
                         [k \in 1..Len(types) |-> argNode(types[k], k)]),
             nodes |-> [k \in 1..Len(types) |-> Append(PseudoId, k)]]
  /\ normOut = NotCalled
  /\ IdleLoc
  /\ IdleParse
  /\ IdleRidc
  /\ IdleSel
  /\ IdleScss
  /\ IdleDecl
  /\ IdleCopy
  /\ IdleRead
  /\ IdleCalls
  /\ IdleRule
  /\ IdleCfg
  /\ IdleRoll
  /\ IdleAdj
  /\ IdleRest

\* astNode.nodes = normalizePseudoParams(astNode, children)
NormalizePseudoParams ==
  /\ normOut = NotCalled
  /\ LET r == normalizePseudoParams(normIn.store, PseudoId, normIn.nodes)
     IN  normOut' = [called |-> TRUE,
                     store |-> [r.store EXCEPT ![PseudoId].nodes = r.results]]
  /\ UNCHANGED <<normIn, locVars, parseVars, ridcVars, selVars, scssVars, declVars, copyVars, readVars, callVars, ruleVars, cfgVars, rollVars, adjVars, restVars>>

NextNorm == NormalizePseudoParams

SpecNorm == InitNorm /\ [][NextNorm]_vars

InitLoc ==
  /\ text \in SeqsUpTo(LineChars, MaxLen)
  /\ lineStartIndices = newLineStartIndices(text)
  /\ locCall = "new"
  /\ locIndex = 0
  /\ locLoc = NoLoc
  /\ locBack = 0
  /\ IdleParse
  /\ IdleRidc
  /\ IdleSel
  /\ IdleScss
  /\ IdleDecl
  /\ IdleCopy
  /\ IdleRead
  /\ IdleCalls
  /\ IdleRule
  /\ IdleCfg
  /\ IdleRoll
  /\ IdleAdj
  /\ IdleRest
  /\ IdleNorm

GetLocFromIndex ==
  \E i \in 0..Len(text) :
    /\ locIndex' = i
    /\ locLoc' = getLocFromIndex(text, lineStartIndices, i)
    /\ locCall' = "getLocFromIndex"
    /\ UNCHANGED <<text, lineStartIndices, locBack, parseVars, ridcVars, selVars, scssVars, declVars, copyVars, readVars, callVars, ruleVars, cfgVars, rollVars, adjVars, restVars, normVars>>

GetIndexFromLoc ==
  /\ locCall = "getLocFromIndex"
  /\ locBack' = getIndexFromLoc(lineStartIndices, locLoc)
  /\ locCall' = "getIndexFromLoc"
  /\ UNCHANGED <<text, lineStartIndices, locIndex, locLoc, parseVars, ridcVars, selVars, scssVars, declVars, copyVars, readVars, callVars, ruleVars, cfgVars, rollVars, adjVars, restVars, normVars>>

NextLoc == GetLocFromIndex \/ GetIndexFromLoc

SpecLoc == InitLoc /\ [][NextLoc]_vars

\* C5: getIndexFromLoc(getLocFromIndex(i)) = i for every index 0..text.length of
\* every buffer, whatever mix of \n, \r\n, \r,  ,   it holds.
C5_RoundTrip ==
  locCall = "getIndexFromLoc" => locBack = locIndex

\* C5 witness: the round trip was taken at the end-of-text index of a buffer that
\* holds a \r\n pair and a second line terminator.
C5_Witness ==
  /\ locCall = "getIndexFromLoc"
  /\ locIndex = Len(text)
  /\ Len(text) = 3
  /\ text[1] = CR /\ text[2] = LF /\ text[3] = PS
  /\ locLoc = [line |-> 3, column |-> 0]

-----------------------------------------------------------------------------
(* Claims about parse                                                      *)

Called == returned # NotCalled

\* (line, column, message) of a ParsingError node
Triple(pe) == <<pe.loc.line, pe.loc.column, pe.message>>

\* (line, column, message) a failure is reported under, for a text that starts at offset
TripleOfFailure(f, offset) ==
  LET msg == IF f.reason # "" THEN f.reason ELSE f.message
  IN  IF f.line = 0 \/ f.column = 0 THEN <<offset.line, offset.column, msg>>
      ELSE IF f.line = 1 THEN <<offset.line, offset.column + f.column - 1, msg>>
      ELSE <<offset.line + f.line - 1, f.column - 1, msg>>

\* out holds exactly the first occurrences of the triples of fails, in their order
FirstOccurrences(out, fails, offset) ==
  LET T(k) == TripleOfFailure(fails[k], offset)
      First(t) == CHOOSE k \in 1..Len(fails) : T(k) = t /\ \A m \in 1..(k - 1) : T(m) # t
  IN  /\ \A i, j \in 1..Len(out) : i # j => Triple(out[i]) # Triple(out[j])
      /\ {Triple(out[i]) : i \in 1..Len(out)} = {T(k) : k \in 1..Len(fails)}
      /\ \A i, j \in 1..Len(out) : i < j => First(Triple(out[i])) < First(Triple(out[j]))

\* the failures the call recorded, in the order it met them
RecordedFailures ==
  IF returned.caught = NoErr THEN anyErrors ELSE Append(anyErrors, returned.caught)

\* C1: parse never raises to its caller: whatever the text, the offset location and
\* the dialect, and whichever engine or conversion step throws, the call returns a
\* VCSSStyleSheet node.
C1_NeverRaises ==
  Called => ~returned.raised /\ returned.node.type = "VCSSStyleSheet"

\* C1 witness: the primary engine and the fallback engine both threw, and parse
\* still returned a StyleSheet.
C1_Witness ==
  /\ Called
  /\ lang = "css"
  /\ parseArgs.env.primary = UnclosedBlock11
  /\ parseArgs.env.safe = TypeErr
  /\ ~returned.raised
  /\ returned.node.type = "VCSSStyleSheet"

\* every step after the primary engine's failure completes
RestCompletes ==
  /\ parseArgs.env.safe = NoErr
  /\ \A k \in 1..Len(parseArgs.env.nodes) : parseArgs.env.nodes[k].step # "throws"

\* C2 as stated: in each dialect, when the primary engine throws, the returned
\* StyleSheet is converted from the tree of the permissive engine and the original
\* failure is in its errors.
C2_Original ==
  (Called /\ parseArgs.env.primary # NoErr /\ RestCompletes) =>
     /\ returned.node.node = "postcss-safe-parser"
     /\ \E i \in 1..Len(returned.node.errors) :
          Triple(returned.node.errors[i]) =
            TripleOfFailure(parseArgs.env.primary, parseArgs.offsetLocation)

\* C2 as amended: the CSS parser falls back to the permissive engine, and when the
\* fallback and the conversion of its tree complete the returned StyleSheet is
\* converted from the fallback tree, one child per node that is not a comment, with
\* the original failure first in its errors.  The SCSS and Stylus parsers have no
\* fallback: the returned StyleSheet has no tree, no children, and the failure as
\* its only error.
C2_Fallback ==
  (Called /\ parseArgs.env.primary # NoErr /\ RestCompletes) =>
     LET sheet == returned.node
         first == TripleOfFailure(parseArgs.env.primary, parseArgs.offsetLocation)
         gnodes == parseArgs.env.nodes
     IN  IF lang = "css"
         THEN /\ sheet.node = "postcss-safe-parser"
              /\ Len(sheet.nodes) =
                   Cardinality({k \in 1..Len(gnodes) : gnodes[k].type # "comment"})
              /\ Len(sheet.errors) >= 1
              /\ Triple(sheet.errors[1]) = first
         ELSE /\ sheet.node = Null
              /\ sheet.nodes = << >>
              /\ Len(sheet.errors) = 1
              /\ Triple(sheet.errors[1]) = first

\* C2 witness: the CSS parser fell back and converted two nodes of the fallback tree.
C2_Witness ==
  /\ Called
  /\ lang = "css"
  /\ parseArgs.env.primary = UnknownWord21
  /\ returned.node.node = "postcss-safe-parser"
  /\ Len(returned.node.nodes) = 2
  /\ Len(returned.node.errors) = 1

\* C3: when an exception reaches the catch of parse, the returned StyleSheet spans
\* the whole input, [index(offsetLocation), index(offsetLocation) + css.length], has
\* no child nodes, and its errors are the errors recorded before the failure followed
\* by the caught failure, deduplicated.
C3_TotalFailure ==
  (Called /\ returned.caught # NoErr) =>
     LET sheet == returned.node
         startIndex == getIndexFromLoc(newLineStartIndices(sourceCode),
                                       parseArgs.offsetLocation)
     IN  /\ sheet.range = <<startIndex, startIndex + Len(parseArgs.css)>>
         /\ sheet.nodes = << >>
         /\ FirstOccurrences(sheet.errors, Append(anyErrors, returned.caught),
                             parseArgs.offsetLocation)

\* C3 witness: the fallback tree was being converted when a selector failed to
\* parse; the StyleSheet holds the engine's failure and then the caught one.
C3_Witness ==
  /\ Called
  /\ lang = "css"
  /\ anyErrors = <<UnclosedBlock11>>
  /\ returned.caught = TypeErr
  /\ Len(parseArgs.css) = 3
  /\ parseArgs.offsetLocation = [line |-> 1, column |-> 1]
  /\ returned.node.range = <<1, 4>>
  /\ Len(returned.node.errors) = 2

\* C4: no two entries of the returned StyleSheet's errors have the same (line,
\* column, message); of a failure recorded more than once only the first occurrence
\* is kept, and the entries stand in first-occurrence order.
C4_ErrorsDeduplicated ==
  Called => FirstOccurrences(returned.node.errors, RecordedFailures,
                             parseArgs.offsetLocation)

\* C4 witness: the primary engine's failure was recorded again by a later step (the
\* text between a selector and its brace) and the StyleSheet holds it once.
C4_Witness ==
  /\ Called
  /\ returned.caught = NoErr
  /\ Len(anyErrors) = 2
  /\ anyErrors[1] = anyErrors[2]
  /\ Len(returned.node.errors) = 1

-----------------------------------------------------------------------------
(* Claims about removeInvalidDescendantCombinator                          *)

RidcCalled == ridcResults # NotCalled

\* the nodes of a list that are not descendant combinators, in their order
NonDescendants(nodes) == SelectSeq(nodes, LAMBDA n : ~isDescendantCombinator(n))

CombinatorCount(nodes) == Cardinality({k \in 1..Len(nodes) : isSelectorCombinator(nodes[k])})

\* no descendant combinator first, after a combinator or before a combinator; the
\* nodes that are not descendant combinators are the input's, in their order
RidcPruned(inp, out) ==
  /\ Len(out) > 0 => ~isDescendantCombinator(out[1])
  /\ \A k \in 2..Len(out) :
       isDescendantCombinator(out[k]) => ~isSelectorCombinator(out[k - 1])
  /\ \A k \in 1..(Len(out) - 1) :
       isDescendantCombinator(out[k]) => ~isSelectorCombinator(out[k + 1])
  /\ NonDescendants(out) = NonDescendants(inp)

\* the input is [A, descendant, B] with A and B no combinators
IsADescB(inp) ==
  /\ Len(inp) = 3
  /\ isDescendantCombinator(inp[2])
  /\ ~isSelectorCombinator(inp[1])
  /\ ~isSelectorCombinator(inp[3])

\* C10 as stated: in the returned list no descendant combinator is first, follows a
\* combinator or precedes one; every other input node is kept in order; a list
\* without combinators gains none and [A, descendant, B] keeps exactly one.
C10_Original ==
  RidcCalled =>
    LET inp == ridcNodes
        out == ridcResults.results
    IN  /\ RidcPruned(inp, out)
        /\ (CombinatorCount(inp) = 0 => CombinatorCount(out) = 0)
        /\ (IsADescB(inp) => CombinatorCount(out) = 1)

\* C10 as amended: the same, except that a list without combinators gains none
\* when it holds no ::v-deep / ::v-slotted / ::v-global pseudo after its first node
\* (before such a pseudo one is synthesized), and [A, descendant, B] keeps exactly
\* one combinator unless A is a ::v-deep pseudo without arguments and B no such
\* pseudo (then the descendant is dropped and none is synthesized).
C10_Pruning ==
  RidcCalled =>
    LET inp == ridcNodes
        out == ridcResults.results
    IN  /\ RidcPruned(inp, out)
        /\ ( (/\ CombinatorCount(inp) = 0
              /\ \A k \in 2..Len(inp) : ~isVueSpecialPseudo(inp[k]))
             => out = inp )
        /\ ( (IsADescB(inp) /\ ~(isVDeepPseudoV2(inp[1]) /\ ~isVueSpecialPseudo(inp[3])))
             => CombinatorCount(out) = 1 )
        /\ ( (IsADescB(inp) /\ isVDeepPseudoV2(inp[1]) /\ ~isVueSpecialPseudo(inp[3]))
             => CombinatorCount(out) = 0 )

\* C10 witness: [class, descendant, child] loses the descendant that precedes the
\* child combinator.
C10_Witness ==
  /\ RidcCalled
  /\ Len(ridcNodes) = 3
  /\ ridcNodes[1].type = "VCSSClassSelector"
  /\ isDescendantCombinator(ridcNodes[2])
  /\ ridcNodes[3].value = <<">">>
  /\ ridcResults.results = <<ridcNodes[1], ridcNodes[3]>>

-----------------------------------------------------------------------------
(* Claims about the converted selectors                                     *)

SelConverted == selOut # NotCalled /\ ~selOut.threw

\* the children of a node of the converted tree: the selectors of the rule, the
\* nodes of a selector or pseudo
SelChildren(out, p) == IF p = RuleId THEN out.selectors ELSE out.store[p].nodes

\* the nodes of the tree: the rule and every node that is a child
SelTree(out) ==
  {RuleId} \cup {i \in DOMAIN out.store :
                   \E p \in DOMAIN out.store :
                     \E k \in 1..Len(SelChildren(out, p)) : SelChildren(out, p)[k] = i}

\* C6: every node of the converted tree has start <= end, and the range of a
\* child lies within the range of its parent.
C6_Contained ==
  SelConverted =>
    /\ \A i \in SelTree(selOut) : selOut.store[i].start <= selOut.store[i].end
    /\ \A p \in SelTree(selOut) :
         \A k \in 1..Len(SelChildren(selOut, p)) :
           LET c == selOut.store[SelChildren(selOut, p)[k]]
           IN  /\ selOut.store[p].start <= c.start
               /\ c.end <= selOut.store[p].end

\* C6 witness: the selector `.a>>>`, whose grammar range ends after the first `>`,
\* is converted: the combinator spans the three characters, within its selector.
C6_Witness ==
  /\ SelConverted
  /\ selIn.sels = <<SelSpec(<< >>, <<"cls", "deep">>, << >>)>>
  /\ Len(selIn.code) = 7
  /\ selIn.root.nodes[1].source.end.column = 3
  /\ selOut.store[<<1, 2>>].end = 5
  /\ selOut.store[<<1>>].end = 5

\* C7: the children of a node, taken in list order, do not overlap: each ends at
\* or before the start of the next, a synthesized combinator included.
C7_Ordered ==
  SelConverted =>
    \A p \in SelTree(selOut) :
      \A j \in 1..Len(SelChildren(selOut, p)) : \A k \in 1..(j - 1) :
        selOut.store[SelChildren(selOut, p)[k]].end
          <= selOut.store[SelChildren(selOut, p)[j]].start

-----------------------------------------------------------------------------
(* Claims about SCSSSelectorParser (SpecScss)                               *)

\* the substitutions replaceSelector makes in the selector text of the rule
ScssContext == replaceSelector(scssIn.rawSelectorText)

\* the children of the selector of the tree parseInternal returned
ScssTreeNodes == scssTree.root.nodes[1].nodes

\* the text of a grammar node as it stands in a selector
nodeString(n) == IF n.type = "class" THEN <<".">> \o n.value ELSE n.value

\* the text of the original selector between the start and the end of a node
nodeSourceText(n) ==
  LET starts == newLineStartIndices(scssIn.rawSelectorText)
  IN  Slice(scssIn.rawSelectorText,
            getIndexFromLoc(starts, [line |-> n.source.start.line,
                                     column |-> n.source.start.column - 1]),
            getIndexFromLoc(starts, n.source.end))

holdsPlaceholder(n) ==
  \E k \in 1..Len(ScssContext.replaces) :
    \E prop \in {"value", "raws.spaces.after", "raws.spaces.before"} :
      includes(getProp(n, prop), ScssContext.replaces[k].random)

\* C8: after parseInternal on a selector text with interpolations, no node
\* holds a placeholder in a property, and the text of each node (the white
\* space of a descendant combinator aside) is the original text between the
\* node's start and end positions.
C8_Restored ==
  (scssTree # NotCalled /\ Len(ScssContext.replaces) > 0)
    => \A k \in 1..Len(ScssTreeNodes) :
         LET n == ScssTreeNodes[k]
         IN  /\ ~holdsPlaceholder(n)
             /\ (n.type = "combinator" /\ n.value = <<" ">>) \/ nodeString(n) = nodeSourceText(n)

\* the inline comments of the comment side list
ScssInlineComments == SelectSeq(scssOut.comments, LAMBDA c : c.type = "VCSSInlineComment")

\* the content of an inline comment: its text without "//" and the white
\* space around
inlineContent(original) == trim(Slice(original, 2, Len(original)))

\* the nodes of the selectors other than the selectors themselves
ScssParts ==
  {i \in DOMAIN scssOut.store : scssOut.store[i].type \notin {"VCSSStyleRule", "VCSSSelector"}}

\* the span of the k-th inline comment in the host text
commentSpan(k) ==
  LET c == ScssContext.comments[k]
  IN  [start |-> Len(scssIn.prefix) + c.start,
       end |-> Len(scssIn.prefix) + c.start + Len(c.original)]

C9_OnePerComment == Len(ScssInlineComments) = Len(ScssContext.comments)

C9_TextStripped ==
  \A k \in 1..Len(ScssInlineComments) :
    \E j \in 1..Len(ScssContext.comments) :
      ScssInlineComments[k].text = inlineContent(ScssContext.comments[j].original)

C9_NoOverlap ==
  \A i \in ScssParts : \A k \in 1..Len(ScssContext.comments) :
    scssOut.store[i].end <= commentSpan(k).start \/ commentSpan(k).end <= scssOut.store[i].start

\* C9: for a selector text with inline comments, the comment side list gets
\* exactly one VCSSInlineComment per inline comment, its text is the content
\* of the comment without "//" and the white space around, and no selector
\* part overlaps the span of a comment in the original text.
C9_InlineComments ==
  (scssOut # NotCalled /\ ~scssOut.threw /\ Len(ScssContext.comments) > 0)
    => (C9_OnePerComment /\ C9_TextStripped /\ C9_NoOverlap)

-----------------------------------------------------------------------------
(* Claims about convertDeclNode (SpecDecl)                                  *)

\* the source text at the start of the declaration is its first k characters
\* followed by node.prop
PrefixExtended(k) ==
  /\ declIn.start + k + Len(declIn.prop) <= Len(declIn.code)
  /\ Slice(declIn.code, declIn.start + k, declIn.start + k + Len(declIn.prop)) = declIn.prop

\* C11: the property convertDeclNode gives the declaration is the shortest
\* p + node.prop, p being the first characters of the source text at the
\* node's start, that equals the source text at the node's start; node.prop
\* itself when the source text starts with it.
C11_ShortestPrefix ==
  declPc = "done"
    => \E k \in 0..Len(declIn.code) :
         /\ PrefixExtended(k)
         /\ \A j \in 0..(k - 1) : ~PrefixExtended(j)
         /\ declProperty = Slice(declIn.code, declIn.start, declIn.start + k) \o declIn.prop

\* `*cc` with node.prop `c`: the property is `*c`, one star before the name
C11_Witness ==
  /\ declPc = "done"
  /\ declIn.prop = <<"c">>
  /\ Slice(declIn.code, declIn.start, declIn.start + 3) = <<"*", "c", "c">>
  /\ declProperty = <<"*", "c">>


\* C12: copy(overrides) returns a node of the same type in which each overridden
\* field has the override value, an override to null included, and every other
\* stored field equals the original's.
C12_Copy ==
  copyOut.called =>
    /\ ~copyOut.result.threw
    /\ copyOut.result.obj.type = copyThis.type
    /\ \A field \in DOMAIN copyOut.props :
         member(copyOut.result.obj, field) = copyOut.props[field]
    /\ \A field \in DOMAIN copyThis \ DOMAIN copyOut.props :
         member(copyOut.result.obj, field) = copyThis[field]

\* C12: an attribute selector copied with { operator: null } keeps its operator
C12_NullOverrideIgnored ==
  /\ copyOut.called
  /\ copyThis.type = JsString("VCSSAttributeSelector")
  /\ copyOut.props = [operator |-> JsNull]
  /\ ~copyOut.result.threw
  /\ copyOut.result.obj.operator = JsString("=")

\* the text of a selector node built from the fields it has now
RECURSIVE currentText(_)
RECURSIVE joinCurrent(_, _, _)
joinCurrent(nodes, k, sep) ==
  IF k > Len(nodes) THEN ""
  ELSE toText(currentText(nodes[k].v)) \o (IF k < Len(nodes) THEN sep ELSE "")
       \o joinCurrent(nodes, k + 1, sep)
currentText(astNode) ==
  CASE astNode.type.v = "VCSSSelector" -> JsString(joinCurrent(astNode.nodes.v, 1, ""))
    [] astNode.type.v = "VCSSSelectorPseudo" ->
         IF Len(astNode.nodes.v) = 0 THEN astNode.value
         ELSE JsString(toText(astNode.value) \o "(" \o joinCurrent(astNode.nodes.v, 1, ",")
                       \o ")")
    [] astNode.type.v = "VCSSAttributeSelector" -> JsString(refreshSelector(astNode))
    [] astNode.type.v = "VCSSIDSelector" -> JsString("#" \o toText(astNode.value))
    [] astNode.type.v = "VCSSClassSelector" -> JsString("." \o toText(astNode.value))
    [] OTHER -> astNode.value

\* C16: a read of selector returns the text built from the node's current
\* fields, also after a field was assigned.
C16_CurrentText ==
  [][ReadSelector => readOut'.selector = currentText(readNode)]_vars

\* C16: the class selector of .b whose value was set to z still reads .b
C16_StaleText ==
  /\ readOut.called
  /\ readNode.type = JsString("VCSSClassSelector")
  /\ readNode.value = JsString("z")
  /\ readOut.selector = JsString(".b")

\* the style sheet a new parser returns for the input of call k
freshSheet(k) ==
  parse(callThis.lang, CallDoc, CallDoc, [line |-> 1, column |-> 0], callSheets[k].env).node

\* C13: after any number of calls of parse on one instance, the comments and
\* errors of every style sheet returned so far are those its own input gives
\* on a new parser: nothing of another call is in them and later calls have not
\* changed them.
C13_ListsPerCall ==
  \A k \in 1..Len(callSheets) :
    /\ callArrays[callSheets[k].node.comments] = freshSheet(k).comments
    /\ callArrays[callSheets[k].node.errors] = freshSheet(k).errors

\* C13: two calls were made, the first gave a comment and an error, the second
\* gave none
C13_Witness ==
  /\ Len(callSheets) = 2
  /\ Len(callArrays[callSheets[1].node.comments]) > 0
  /\ Len(callArrays[callSheets[1].node.errors]) > 0
  /\ Len(callArrays[callSheets[2].node.comments]) = 0
  /\ Len(callArrays[callSheets[2].node.errors]) = 0

\* the types of the nodes below a nodes list, children lists included
RECURSIVE typesBelow(_, _)
typesBelow(nodes, k) ==
  IF k > Len(nodes) THEN << >>
  ELSE <<nodes[k].type>>
       \o (IF "nodes" \in DOMAIN nodes[k] THEN typesBelow(nodes[k].nodes, 1) ELSE << >>)
       \o (IF "selectors" \in DOMAIN nodes[k] THEN typesBelow(nodes[k].selectors, 1) ELSE << >>)
       \o typesBelow(nodes, k + 1)

\* the number of comments in the text a grammar tree was made from
RECURSIVE commentsIn(_, _)
commentsIn(nodes, k) ==
  IF k > Len(nodes) THEN 0
  ELSE (IF nodes[k].type = "comment" THEN 1 ELSE 0)
       + (IF nodes[k].step \in {"betweenComment", "afterNameComment", "selectorComment"}
          THEN 1 ELSE 0)
       + commentsIn(nodes[k].nodes, 1) + commentsIn(nodes, k + 1)

\* C14: in the tree of a successful parse no nodes list holds a comment or a
\* parsing error, and the root's comments list holds one entry for each comment
\* of the text: in a body, in the glue text of a rule or an at-rule, in a selector.
C14_CommentsOffTree ==
  (Called /\ returned.caught = NoErr) =>
    /\ \A i \in DOMAIN typesBelow(returned.node.nodes, 1) :
         typesBelow(returned.node.nodes, 1)[i]
           \notin {"VCSSComment", "VCSSInlineComment", "VCSSParsingError"}
    /\ Len(returned.node.comments) = commentsIn(parseArgs.env.nodes, 1)
    /\ \A i \in DOMAIN returned.node.comments :
         returned.node.comments[i].type \in {"VCSSComment", "VCSSInlineComment"}

\* C14 witness: a rule with a declaration and a comment in its body, then an
\* at-rule with a comment after its name: two comments, none in the tree
C14_Witness ==
  /\ Called
  /\ returned.caught = NoErr
  /\ parseArgs.env.nodes = <<GNode("rule", "body", NoErr), GNode("atrule", "afterNameComment", NoErr)>>
  /\ Len(returned.node.comments) = 2
  /\ Len(returned.node.nodes) = 2
  /\ Len(returned.node.nodes[1].nodes) = 1

\* the ids of the nodes below a nodes list, children and selectors included
RECURSIVE idsBelow(_, _)
idsBelow(nodes, k) ==
  IF k > Len(nodes) THEN {}
  ELSE {nodes[k].id}
       \cup (IF "nodes" \in DOMAIN nodes[k] THEN idsBelow(nodes[k].nodes, 1) ELSE {})
       \cup (IF "selectors" \in DOMAIN nodes[k] THEN idsBelow(nodes[k].selectors, 1) ELSE {})
       \cup idsBelow(nodes, k + 1)

\* the returned root has a link to the entry's parent
parentInTree(entry) ==
  /\ "parent" \in DOMAIN entry
  /\ entry.parent \in {NodeId(<< >>)} \cup idsBelow(returned.node.nodes, 1)

\* C15: every entry of the returned root's comments and errors has a parent that
\* is the root or a node below it.
C15_ParentsInTree ==
  Called =>
    /\ \A i \in DOMAIN returned.node.comments : parentInTree(returned.node.comments[i])
    /\ \A i \in DOMAIN returned.node.errors : parentInTree(returned.node.errors[i])

\* C15: a comment between a rule's selector and its brace has the style sheet
\* built for the glue text as its parent
C15_GlueParent ==
  /\ Called
  /\ returned.caught = NoErr
  /\ parseArgs.env.nodes = <<GNode("rule", "betweenComment", NoErr)>>
  /\ returned.node.comments = <<VCSSComment(GlueRootId("between", <<1>>))>>

\* the property names of a block in the order of its lines
trimmedOf(block) == [p \in 1..Len(block.properties) |-> block.properties[p].trimmed]
namesOf(block) == [p \in 1..Len(block.properties) |-> propertyName(block.properties[p].trimmed)]
occurrencesIn(seq, x) == Cardinality({k \in DOMAIN seq : seq[k] = x})
isPermutation(a, b) ==
  /\ Len(a) = Len(b)
  /\ \A k \in DOMAIN a : occurrencesIn(a, a[k]) = occurrencesIn(b, a[k])
\* of any two listed properties, the one listed earlier comes first
inConfiguredOrder(names) ==
  \A i, j \in DOMAIN names :
    (i < j /\ findIndex(propertyGroups, names[i]) # -1 /\ findIndex(propertyGroups, names[j]) # -1)
      => findIndex(propertyGroups, names[i]) <= findIndex(propertyGroups, names[j])

\* C17: in the text a fix puts in place, the property lines of every block are a
\* permutation of the block's lines with the listed properties in listed order.
C17_FixSorts ==
  ruleFixed.called =>
    Bind(propertyBlocksOf(lineInfosOf(styleArr)), LAMBDA blocks :
    Bind(propertyBlocksOf(lineInfosOf(ruleFixed.lines)), LAMBDA fixed :
      /\ Len(fixed) = Len(blocks)
      /\ \A b \in 1..Len(blocks) :
           /\ isPermutation(trimmedOf(fixed[b]), trimmedOf(blocks[b]))
           /\ inConfiguredOrder(namesOf(fixed[b]))))

\* C17: flex, an unlisted property, display: the fix leaves flex before display
C17_BarrierUnsorted ==
  /\ ruleFixed.called
  /\ Bind(propertyBlocksOf(lineInfosOf(styleArr)), LAMBDA blocks :
     Bind(propertyBlocksOf(lineInfosOf(ruleFixed.lines)), LAMBDA fixed :
       /\ Len(blocks) = 1
       /\ Len(fixed) = 1
       /\ namesOf(blocks[1]) = << <<"f">>, <<"x">>, <<"d">> >>
       /\ namesOf(fixed[1]) = << <<"f">>, <<"x">>, <<"d">> >>))

\* the number of rules open before the k-th line
depthBefore(infos, k) ==
  Cardinality({i \in 1..(k - 1) : infos[i].isSelector})
  - Cardinality({i \in 1..(k - 1) : infos[i].isCloseBrace /\ ~infos[i].isSelector})

\* selector and closing brace lines at 2 spaces per nesting level, property lines
\* of a block at the indent of the block
wellIndented(infos, blocks) ==
  /\ \A k \in 1..Len(infos) :
       /\ infos[k].isSelector => infos[k].indent = 2 * depthBefore(infos, k)
       /\ (infos[k].isCloseBrace /\ ~infos[k].isSelector)
            => infos[k].indent = 2 * (depthBefore(infos, k) - 1)
  /\ \A b \in 1..Len(blocks) :
       \A p \in 1..Len(blocks[b].properties) :
         blocks[b].properties[p].indent
           = 2 * depthBefore(infos, blocks[b].properties[p].index + 1)

\* no blank line between two properties of a block
noBlankBetween(infos, blocks) ==
  \A b \in 1..Len(blocks) :
    \A i \in 1..Len(infos) :
      (/\ Len(blocks[b].properties) > 0
       /\ blocks[b].properties[1].index < infos[i].index
       /\ infos[i].index < blocks[b].properties[Len(blocks[b].properties)].index)
        => ~infos[i].isEmpty

allInConfiguredOrder(blocks) ==
  \A b \in 1..Len(blocks) : inConfiguredOrder(namesOf(blocks[b]))

\* the reports of cssSort name no line of the block
noSortReport(errs, block) ==
  \A e \in 1..Len(errs) :
    errs[e].msgId = "cssSort"
      => \A p \in 1..Len(block.properties) : block.properties[p].index # errs[e].index

\* C18: nothing is reported for a style whose blocks are in configured order,
\* whose lines are at their indent and that has no blank line between the
\* properties of a block; and no cssSort report names a line of a block that is
\* in configured order.
C18_NothingReported ==
  ruleReports.called =>
    Bind(lineInfosOf(styleArr), LAMBDA infos :
    Bind(propertyBlocksOf(infos), LAMBDA blocks :
      /\ (wellIndented(infos, blocks) /\ noBlankBetween(infos, blocks)
          /\ allInConfiguredOrder(blocks))
           => ruleReports.errs = << >>
      /\ \A b \in 1..Len(blocks) :
           inConfiguredOrder(namesOf(blocks[b])) => noSortReport(ruleReports.errs, blocks[b])))

\* C18 witness: display, an unlisted property, flex, then a nested rule in
\* order, all at their indent: no report
C18_Witness ==
  /\ ruleReports.called
  /\ ruleReports.errs = << >>
  /\ Bind(lineInfosOf(styleArr), LAMBDA infos :
     Bind(propertyBlocksOf(infos), LAMBDA blocks :
       /\ wellIndented(infos, blocks)
       /\ noBlankBetween(infos, blocks)
       /\ allInConfiguredOrder(blocks)
       /\ Len(blocks) = 2
       /\ namesOf(blocks[1]) = << <<"d">>, <<"x">>, <<"f">> >>))

\* the file is there, can be read and its text parses
configParses == cfgFile.exists /\ cfgFile.readable /\ JSON_parse(cfgFile.content).ok

\* C19: the order in use is the array in css-order.config.json, or the array in
\* its propertyGroups field, when the file exists and parses; when the file is
\* absent or reading or parsing it fails, loading does not raise and the
\* default order is in use.
C19_ConfigOrDefault ==
  cfgLoaded.called =>
    /\ (configParses /\ JSON_parse(cfgFile.content).value.js = "array")
         => ~cfgLoaded.raised /\ cfgLoaded.propertyGroups = JSON_parse(cfgFile.content).value
    /\ (/\ configParses
        /\ JSON_parse(cfgFile.content).value.js = "object"
        /\ member(JSON_parse(cfgFile.content).value.v, "propertyGroups").js = "array")
         => /\ ~cfgLoaded.raised
            /\ cfgLoaded.propertyGroups = JSON_parse(cfgFile.content).value.v.propertyGroups
    /\ ~configParses => ~cfgLoaded.raised /\ cfgLoaded.propertyGroups = DefaultOrder

\* C19 witness: the file holds an array with a comma too many: the default
\* order is in use and the failure was logged
C19_Witness ==
  /\ cfgLoaded.called
  /\ cfgFile.exists
  /\ cfgFile.readable
  /\ cfgFile.content = <<"[", "d", ",", "f", "]", ",">>
  /\ ~cfgLoaded.raised
  /\ cfgLoaded.logged
  /\ cfgLoaded.propertyGroups = DefaultOrder

\* C20: every placeholder recorded within one replaceSelector call occurs neither
\* in the source selector nor in the text substituted before it, and the
\* placeholders recorded are pairwise distinct.
C20_Distinct ==
  /\ \A i \in 1..Len(rollInfos) :
       /\ ~includes(rollSelector, rollInfos[i].random)
       /\ \A k \in 1..Len(rollInfos[i].before) :
            ~includes(rollInfos[i].before[k], rollInfos[i].random)
  /\ \A i, j \in 1..Len(rollInfos) : i # j => rollInfos[i].random # rollInfos[j].random

\* C20: the two interpolations of a selector of two interpolations were given the
\* same placeholder
C20_SameTwice ==
  /\ rollSelector = <<"#", "{", "$", "b", "}", "#", "{", "$", "b", "}">>
  /\ Len(rollInfos) = 2
  /\ rollInfos[1].random = rollInfos[2].random

\* where the text pushed for the k-th yield starts and ends in the substituted text
newStartOf(pieces, k) == Len(concat(SubSeq(pieces, 1, 2 * k - 1)))
newEndOf(pieces, k) == Len(concat(SubSeq(pieces, 1, 2 * k)))

\* the k-th yield was substituted and its replacement's start and end map back to
\* the start and the end of its match
mapsBack(remap, pieces, yields, k) ==
  /\ remapIndex(remap, newStartOf(pieces, k)) = yields[k].result.index
  /\ remapIndex(remap, newEndOf(pieces, k)) = yields[k].result.index + yields[k].result.length

\* C21: when replaceSelector has returned, the start and the exclusive end of
\* every replacement in the substituted text map back, by remapIndex, to the start
\* and the exclusive end of its match in the original text, also for a
\* substitution directly after another one.
C21_Boundaries ==
  rollPc = "done" =>
    \A k \in 1..Len(rollYields) :
      ~copiedThrough(rollYields[k].name) => mapsBack(rollRemap, rollPieces, rollYields, k)

\* C21: two substitutions with no text between them were entered as one mapper,
\* and the start of the second replacement maps to another index than the start
\* of its match
C21_AdjacentMerged ==
  /\ rollPc = "done"
  /\ Len(rollYields) = 2
  /\ ~copiedThrough(rollYields[1].name)
  /\ ~copiedThrough(rollYields[2].name)
  /\ rollYields[2].result.index = rollYields[1].result.index + rollYields[1].result.length
  /\ Len(rollRemap.mappers) = 1
  /\ remapIndex(rollRemap, newStartOf(rollPieces, 2)) # rollYields[2].result.index

\* where the j-th piece of cssSelector was copied from, for a piece that was
\* copied: the plain text before a yield or after the last one, or the match of
\* a yield that is copied through
copiedPiece(yields, j) == j % 2 = 1 \/ copiedThrough(yields[j \div 2].name)
orgStartOf(yields, j) ==
  IF j % 2 = 1 THEN loopStart(yields, (j - 1) \div 2) ELSE yields[j \div 2].result.index
pieceStartOf(pieces, j) == Len(concat(SubSeq(pieces, 1, j - 1)))

\* every character of a copied piece maps back to where it was copied from
unchangedMapBack(remap, pieces, yields) ==
  \A j \in 1..Len(pieces) :
    copiedPiece(yields, j) =>
      \A t \in 0..(Len(pieces[j]) - 1) :
        remapIndex(remap, pieceStartOf(pieces, j) + t) = orgStartOf(yields, j) + t

\* an index inside the new range of a mapper maps into the mapper's original range
withinMapper(remap) ==
  \A m \in 1..Len(remap.mappers) :
    \A i \in remap.mappers[m].new[1]..(remap.mappers[m].new[2] - 1) :
      /\ remap.mappers[m].org[1] <= remapIndex(remap, i)
      /\ remapIndex(remap, i) < remap.mappers[m].org[2]

\* C22: when replaceSelector has returned, remapIndex takes every index of a
\* character that was copied unchanged to the index of that character in the
\* original, is nondecreasing over the indices 0..length of the substituted
\* text, stays within the original range of the mapper that holds the index,
\* and takes the length of the substituted text to the length of the original.
C22_RemapIndex ==
  rollPc = "done" =>
    /\ unchangedMapBack(rollRemap, rollPieces, rollYields)
    /\ \A i \in 1..Len(rollOut.cssSelector) :
         remapIndex(rollRemap, i - 1) <= remapIndex(rollRemap, i)
    /\ withinMapper(rollRemap)
    /\ remapIndex(rollRemap, Len(rollOut.cssSelector)) = Len(rollSelector)

\* C22: a substitution by a longer placeholder with copied text after it: the
\* indices of the placeholder are clamped and the copied text is shifted
C22_Witness ==
  /\ rollPc = "done"
  /\ Len(rollRemap.mappers) = 2
  /\ Len(rollInfos) = 1
  /\ Len(rollInfos[1].replace) > Len(rollInfos[1].original)
  /\ Len(rollPieces[3]) > 0
  /\ remapIndex(rollRemap, pieceStartOf(rollPieces, 3)) < pieceStartOf(rollPieces, 3)
  /\ remapIndex(rollRemap, pieceStartOf(rollPieces, 3) - 1)
       = rollInfos[1].start + Len(rollInfos[1].original) - 1

\* the scan that runs every pattern anew from the cursor and takes the match
\* that starts earliest, the pattern declared first on a tie
RECURSIVE earliestFrom(_, _, _, _)
earliestFrom(str, cursor, k, best) ==
  IF k > Len(PatternNames) THEN best
  ELSE LET r == regexpExec(PatternNames[k], str, cursor)
       IN  IF r # NoMatch /\ (best.result = NoMatch \/ r.index < best.result.index)
           THEN earliestFrom(str, cursor, k + 1, [name |-> PatternNames[k], result |-> r])
           ELSE earliestFrom(str, cursor, k + 1, best)
RECURSIVE scanFrom(_, _)
scanFrom(str, cursor) ==
  LET e == earliestFrom(str, cursor, 1, [name |-> "", result |-> NoMatch])
  IN  IF e.result = NoMatch THEN << >>
      ELSE <<e>> \o scanFrom(str, e.result.index + e.result.length)

\* C23: what the generator has yielded so far is the beginning of what the scan
\* from the cursor finds, and all of it once the generator has returned; every
\* yield starts at or after the end of the one before and after its start.
C23_LeftmostScan ==
  Bind(scanFrom(rollSelector, 0),
    LAMBDA scan :
      /\ Len(rollYields) <= Len(scan)
      /\ rollYields = SubSeq(scan, 1, Len(rollYields))
      /\ rollPc = "after" => rollYields = scan
      /\ \A k \in 2..Len(rollYields) :
           /\ rollYields[k].result.index >= loopStart(rollYields, k - 1)
           /\ rollYields[k].result.index > rollYields[k - 1].result.index)

\* C23: the generator has returned after two yields, the second of a pattern
\* whose first result lay inside the first yield and was searched again
C23_Witness ==
  /\ rollPc = "after"
  /\ Len(rollYields) = 2
  /\ rollYields[1].name # rollYields[2].name
  /\ regexpExec(rollYields[2].name, rollSelector, 0).index < loopStart(rollYields, 1)

\* the k-th yield is a block comment or a string
isCommentOrString(yields, k) == yields[k].name \in {"block", "dstr", "sstr"}

\* an interpolation or an inline comment pattern matches at an index inside the
\* k-th yield
patternInside(selector, yields, k) ==
  \E i \in (yields[k].result.index + 1)..(loopStart(yields, k) - 1) :
    \E name \in {"0text", "0comment"} : matchLength(name, selector, i) > 0

\* C24: when replaceSelector has returned, the text of every block comment and
\* string it was yielded stands unchanged in the substituted text, and no entry
\* of replaces or comments starts inside such a block comment or string.
C24_CopiedThrough ==
  rollPc = "done" =>
    \A k \in 1..Len(rollYields) :
      isCommentOrString(rollYields, k) =>
        /\ Slice(rollOut.cssSelector, newStartOf(rollPieces, k), newEndOf(rollPieces, k))
             = matchedText(rollSelector, rollYields[k])
        /\ \A i \in 1..Len(rollInfos) :
             ~(/\ rollYields[k].result.index <= rollInfos[i].start
               /\ rollInfos[i].start < loopStart(rollYields, k))

\* C24: a block comment that holds an interpolation was copied and nothing was
\* substituted
C24_Witness ==
  /\ rollPc = "done"
  /\ Len(rollYields) = 1
  /\ rollYields[1].name = "block"
  /\ patternInside(rollSelector, rollYields, 1)
  /\ rollInfos = << >>
  /\ rollOut.cssSelector = rollSelector

\* a pseudo node named ::v-deep, :deep, ::v-slotted, :slotted, ::v-global or :global
isDialectPseudo(node) ==
  /\ node.type = "VCSSSelectorPseudo"
  /\ trim(node.value) \in {S_vdeep, S_deep, S_vslotted, S_slotted, S_vglobal, S_global}

\* out[j] is not a node of the input: it was made for the node after it
isSynthesized(inp, out, j) == \A k \in 1..Len(inp) : out[j] # inp[k]
synthesizedBefore(inp, out, j) ==
  /\ j > 1
  /\ isSynthesized(inp, out, j - 1)
  /\ out[j - 1].type = "VCSSSelectorCombinator"
  /\ out[j - 1].value = <<" ">>

\* the place in the output of the node kept last before out[j], 0 for none
keptBefore(inp, out, j) == IF synthesizedBefore(inp, out, j) THEN j - 2 ELSE j - 1

\* C25: in the list removeInvalidDescendantCombinator returns, every ::v-deep,
\* ::v-slotted or ::v-global pseudo (in either spelling) that is not first follows
\* a combinator; a descendant combinator " " is made just before such a pseudo
\* exactly when a node was kept before it and that node is no combinator; and
\* nothing is made anywhere else.
C25_CombinatorBeforePseudo ==
  RidcCalled =>
    LET inp == ridcNodes
        out == ridcResults.results
    IN  /\ \A j \in 1..Len(out) :
             isDialectPseudo(out[j]) =>
               /\ j > 1 => out[j - 1].type = "VCSSSelectorCombinator"
               /\ synthesizedBefore(inp, out, j)
                    <=> (/\ keptBefore(inp, out, j) >= 1
                         /\ out[keptBefore(inp, out, j)].type # "VCSSSelectorCombinator")
        /\ \A j \in 1..Len(out) :
             isSynthesized(inp, out, j) =>
               /\ j < Len(out)
               /\ isDialectPseudo(out[j + 1])
               /\ synthesizedBefore(inp, out, j + 1)

\* C25 witness: [class, ::v-slotted, :global] gets a descendant combinator before
\* each of the two pseudos.
C25_Witness ==
  /\ RidcCalled
  /\ Len(ridcNodes) = 3
  /\ ridcNodes[1].type = "VCSSClassSelector"
  /\ ridcNodes[2].value = S_vslotted
  /\ ridcNodes[3].value = S_global
  /\ Len(ridcResults.results) = 5
  /\ synthesizedBefore(ridcNodes, ridcResults.results, 3)
  /\ synthesizedBefore(ridcNodes, ridcResults.results, 5)

\* C26: after convertCombinatorNode or convertStringNode the end of the new node
\* is its start plus the length of its value, with loc.end the location of that
\* index; every ancestor ends there or later; an ancestor that ended before is
\* raised to that end and its location, and an ancestor that ended there or
\* later is as it was.
C26_EndsRaised ==
  adjOut # NotCalled =>
    LET n == adjOut.store[adjOut.id]
        endIndex == n.start + Len(n.value)
    IN  /\ n.start = adjIn.start
        /\ n.end = endIndex
        /\ n.loc.end = getLocFromIndex(adjIn.code, adjIn.sc.starts, endIndex)
        /\ \A a \in DOMAIN adjIn.store :
             /\ adjOut.store[a].end >= endIndex
             /\ adjIn.store[a].end < endIndex =>
                  adjOut.store[a] = [adjIn.store[a] EXCEPT !.end = endIndex,
                                                           !.loc.end = n.loc.end]
             /\ adjIn.store[a].end >= endIndex => adjOut.store[a] = adjIn.store[a]

\* C26 witness: the node's text ends after the end the grammar gave; the selector
\* and the pseudo around it are raised, the selector around the pseudo and the
\* rule are left.
C26_Witness ==
  /\ adjOut # NotCalled
  /\ Len(adjIn.parent) = 3
  /\ adjOut.store[adjOut.id].end > adjIn.end
  /\ adjOut.store[<<1, 1, 1>>].end > adjIn.store[<<1, 1, 1>>].end
  /\ adjOut.store[<<1, 1>>].end > adjIn.store[<<1, 1>>].end
  /\ adjOut.store[<<1>>] = adjIn.store[<<1>>]
  /\ adjOut.store[<<1>>].end > adjOut.store[<<1, 1>>].end
-----------------------------------------------------------------------------
(* Claims about the loop of convertDeclNode (SpecDecl)                      *)

\* C28: the while loop of convertDeclNode ends for every node and every source
\* text: it reaches no state in which its condition holds and no further
\* iteration changes property or textProp.  From starLength >= textProp.length
\* on, textProp.slice(0, starLength) is all of textProp, so an iteration that
\* then leaves both as they are is repeated by every later one.
C28_LoopEnds ==
  ~ /\ declPc = "loop"
    /\ declProperty # declTextProp
    /\ declStarLength >= Len(declTextProp)
    /\ declWhileBody(declIn.code, declIn.start, declIn.prop, declStarLength, declTextProp)
         = [property |-> declProperty, textProp |-> declTextProp]

-----------------------------------------------------------------------------
(* Claims about the children of a selector (SpecSel)                        *)

\* every child of the selector is a comment or a descendant combinator: the
\* conversion drops the comments, and the pruning the combinators left alone
allFiltered(sel) == \A j \in 1..Len(sel.parts) : sel.parts[j] \in {"cmt", "desc", "descCmt"}

\* C29: converting the children of a selector-grammar node raises no error
\* when every child is filtered out: the parse of a selector list with a
\* selector that holds only comments and descendant combinators returns.
C29_NeverRaises ==
  (selOut.called /\ \E k \in 1..Len(selIn.sels) : allFiltered(selIn.sels[k]))
    => ~selOut.threw

-----------------------------------------------------------------------------
(* Claims about restoreReplacedSelector (SpecRestore)                       *)

\* the paths of the tree from the node at path on, in document order: a node,
\* then its children from the k-th on with all below them
RECURSIVE preorder(_, _)
RECURSIVE preorderChildren(_, _, _)
preorder(tree, path) == <<path>> \o preorderChildren(tree, path, 1)

preorderChildren(tree, path, k) ==
  IF k > Len(nodeAt(tree, path).nodes) THEN << >>
  ELSE preorder(tree, Append(path, k)) \o preorderChildren(tree, path, k + 1)

\* the visits that are over: all but the one whose loops still run
finishedVisits ==
  IF restPc \in {"source", "done"} THEN restVisited
  ELSE SubSeq(restVisited, 1, Len(restVisited) - 1)

\* a property of the node still holds the random string of a substitution
holdsRandom(n) ==
  \E info \in {restCtx.replaces[k] : k \in 1..Len(restCtx.replaces)}
               \cup {restCtx.comments[k] : k \in 1..Len(restCtx.comments)} :
    \E prop \in {"value", "raws.spaces.after", "raws.spaces.before"} :
      includes(getProp(n, prop), info.random)

\* infos lost exactly one entry
oneRemoved(infos, after) == \E k \in 1..Len(infos) : after = splice(infos, k)

\* C27: no walk goes on for ever: from some point on no step of it is taken,
\* and a walk that has not returned has a node to go on with; the nodes are
\* visited once each, in document order; a node whose visit is over holds no
\* placeholder, however many it held; every restore takes exactly one entry
\* from replaces or from comments, so the restores made and the entries
\* pending are always as many as the substitutions recorded.
C27_Restores ==
  /\ <>[][~NextRestore]_vars
  /\ [](restPc \in {"source", "replaceds", "comments"} => restTodo # << >>)
  /\ [](restPc = "done" => restVisited = preorder(restTree, << >>))
  /\ [](\A j \in 1..Len(finishedVisits) : ~holdsRandom(nodeAt(restTree, finishedVisits[j])))
  /\ [](restPc # "call" =>
          Len(restLog) + Len(restReplaces) + Len(restComments)
            = Len(restCtx.replaces) + Len(restCtx.comments))
  /\ [][restLog' # restLog =>
          \/ oneRemoved(restReplaces, restReplaces') /\ restComments' = restComments
          \/ oneRemoved(restComments, restComments') /\ restReplaces' = restReplaces]_vars

\* C27 witness: the walk of `.a#{$b}#{$b}` is over, two restores were made on
\* the class node and nothing is pending
C27_Witness ==
  /\ restPc = "done"
  /\ restIn = <<".", "a", "#", "{", "$", "b", "}", "#", "{", "$", "b", "}">>
  /\ restLog = << <<1, 1>>, <<1, 1>> >>
  /\ Len(restCtx.replaces) = 2
  /\ restReplaces = << >>

-----------------------------------------------------------------------------
(* Claims about the parent of a node (SpecNorm)                             *)

\* C30: for every container c of the tree and every node n of c.nodes,
\* n.parent is c, the Selector wrappers of normalizePseudoParams included.
C30_ParentIsContainer ==
  normOut.called =>
    \A c \in DOMAIN normOut.store :
      \A k \in 1..Len(normOut.store[c].nodes) :
        normOut.store[normOut.store[c].nodes[k]].parent = c

\* C30: the pseudo got one wrapper around its only child, a class selector,
\* and the parent of the class selector is still the pseudo
C30_WrappedKeepsPseudo ==
  /\ normOut.called
  /\ normIn.nodes = << <<1, 1>> >>
  /\ normIn.store[<<1, 1>>].type = "VCSSClassSelector"
  /\ normOut.store[PseudoId].nodes = << <<1, 1, -1>> >>
  /\ normOut.store[<<1, 1, -1>>].nodes = << <<1, 1>> >>
  /\ normOut.store[<<1, 1, -1>>].parent = PseudoId
  /\ normOut.store[<<1, 1>>].parent = PseudoId

=============================================================================
